---- MODULE Spec2Model ----
(***************************************************************************)
(* Host-side session engine for the NTAG 424 DNA (node-ntag424).           *)
(*                                                                         *)
(* The model follows src/src/index.ts (createTagSession and the functions  *)
(* closed over commandCounter / authentication), src/src/crypto/session.ts *)
(* (deriveSessionKeys), src/src/crypto/aes/crypto.ts, src/src/buffer.ts    *)
(* and src/unnamed/part_000 (ResponseStatus, CommandResponse).             *)
(*                                                                         *)
(* Buffers are sequences of bytes 0..255.  `Buffer | null` and             *)
(* `EncryptionParams | undefined` are modelled as sequences of length at   *)
(* most one: <<>> is null/undefined, <<x>> is the value x.                 *)
(*                                                                         *)
(* A call of an async function runs synchronously up to its next await;    *)
(* the suspension points are reader.transmit and the dynamic import in     *)
(* authStep2.  Each action below is one such synchronous run.              *)
(***************************************************************************)
EXTENDS Integers, Sequences, FiniteSets, TLC

\* ------------------------------------------------------------------------
\* Option values (Buffer | null, EncryptionParams | undefined)
\* ------------------------------------------------------------------------
Null == <<>>
Some(x) == <<x>>
IsNull(o) == Len(o) = 0
Val(o) == o[1]

\* A function that can throw returns Ok(v) or Err(kind).
Ok(v) == [ok |-> TRUE, val |-> v, err |-> ""]
Err(e) == [ok |-> FALSE, val |-> <<>>, err |-> e]

\* ------------------------------------------------------------------------
\* Buffer helpers
\* ------------------------------------------------------------------------
Byte == 0..255

\* Buffer.alloc(n): n zero bytes; Buffer.alloc(n, v): n bytes v
alloc(n) == [i \in 1..n |-> 0]
allocFill(n, v) == [i \in 1..n |-> v]

\* JS index normalisation of Buffer.prototype.subarray
ClampIndex(i, n) == IF i < 0 THEN (IF n + i < 0 THEN 0 ELSE n + i) ELSE (IF i > n THEN n ELSE i)

\* b.subarray(s, e), zero-based, end exclusive, negative indices from the end
subarray(b, s, e) ==
    LET n == Len(b)
        lo == ClampIndex(s, n)
        hi == ClampIndex(e, n)
    IN  IF hi <= lo THEN <<>> ELSE SubSeq(b, lo + 1, hi)

\* b.subarray(s)
subarrayFrom(b, s) == subarray(b, s, Len(b))

\* a ^ b on bytes
RECURSIVE XorBits(_, _, _)
XorBits(a, b, n) == IF n = 0 THEN 0 ELSE (((a % 2) + (b % 2)) % 2) + 2 * XorBits(a \div 2, b \div 2, n - 1)
XorByte(a, b) == XorBits(a, b, 8)

\* (variant: the last two bytes are moved to the front)
rotateRightByTwo(b) == subarrayFrom(b, -2) \o subarray(b, 0, -2)

\* buffer.rotateLeft / buffer.rotateRight
rotateLeft(b) == subarrayFrom(b, 1) \o subarray(b, 0, 1)
rotateRight(b) == subarrayFrom(b, -1) \o subarray(b, 0, -1)

\* buffer.xor: throws when the lengths differ
xor(a, b) ==
    IF Len(a) # Len(b) THEN Err("length")
    ELSE Ok([i \in 1..Len(a) |-> XorByte(a[i], b[i])])

\* Buffer.compare(a, b) === 0
BufferEquals(a, b) == Len(a) = Len(b) /\ \A i \in 1..Len(a) : a[i] = b[i]

\* buf.lastIndexOf(v), zero-based, -1 when absent
lastIndexOf(b, v) ==
    LET hits == {i \in 1..Len(b) : b[i] = v}
    IN  IF hits = {} THEN -1 ELSE (CHOOSE i \in hits : \A j \in hits : j <= i) - 1

\* Range of buf.writeUInt16LE(value, offset): a RangeError outside 0..0xFFFF
U16Limit == 256 * 256
FitsUInt16(v) == v >= 0 /\ v < U16Limit
\* the two bytes writeUInt16LE stores
u16le(v) == <<v % 256, (v \div 256) % 256>>

\* buffer.readUintLE(offset, n) for n = 2 or 3, inside the buffer
readUintLE(b, offset, n) ==
    IF n = 2 THEN b[offset + 1] + 256 * b[offset + 2]
    ELSE b[offset + 1] + 256 * b[offset + 2] + 65536 * b[offset + 3]

\* A 32-bit value is kept as its 32 bits, least significant first.
\* (n >> shift) & 0xff
ByteAt(n, shift) ==
    n[shift + 1] + 2 * n[shift + 2] + 4 * n[shift + 3] + 8 * n[shift + 4]
    + 16 * n[shift + 5] + 32 * n[shift + 6] + 64 * n[shift + 7] + 128 * n[shift + 8]
\* buffer.create.u32le: the four bytes, least significant first
u32le(n) == <<ByteAt(n, 0), ByteAt(n, 8), ByteAt(n, 16), ByteAt(n, 24)>>

\* ------------------------------------------------------------------------
\* Crypto primitives (src/src/crypto/aes/crypto.ts)
\*
\* AES-128 (node:crypto) and AES-CMAC (@nikeee/aes-cmac) are libraries.  They
\* are stood in for by a keyed byte-wise block permutation and a keyed
\* 16-byte digest: the block permutation is invertible under the same key,
\* the digest depends on the key and on every byte of the message and its
\* position.  The modes built on top (ECB, CBC chaining, manual padding,
\* truncation) are modelled as the code computes them.
\* ------------------------------------------------------------------------
blockSize == 16

\* one AES block under `key` (cipher.update on a single block, no padding)
AesBlockEncrypt(key, blk) == [i \in 1..blockSize |-> (blk[i] + key[i] + 7 * i) % 256]
AesBlockDecrypt(key, blk) == [i \in 1..blockSize |-> (blk[i] + 512 - key[i] - 7 * i) % 256]

XorBlock(a, b) == [i \in 1..blockSize |-> XorByte(a[i], b[i])]
BlockAt(data, j) == SubSeq(data, (j - 1) * blockSize + 1, j * blockSize)

\* aes-128-ecb over whole blocks
RECURSIVE EcbBlocks(_, _, _)
EcbBlocks(key, data, j) ==
    IF j * blockSize > Len(data) THEN <<>>
    ELSE AesBlockEncrypt(key, BlockAt(data, j)) \o EcbBlocks(key, data, j + 1)

\* aes-128-cbc encryption over whole blocks, `prev` is the chaining block
RECURSIVE CbcEncBlocks(_, _, _, _)
CbcEncBlocks(key, data, prev, j) ==
    IF j * blockSize > Len(data) THEN <<>>
    ELSE LET c == AesBlockEncrypt(key, XorBlock(BlockAt(data, j), prev))
         IN  c \o CbcEncBlocks(key, data, c, j + 1)

\* aes-128-cbc decryption over whole blocks
RECURSIVE CbcDecBlocks(_, _, _, _)
CbcDecBlocks(key, data, prev, j) ==
    IF j * blockSize > Len(data) THEN <<>>
    ELSE XorBlock(AesBlockDecrypt(key, BlockAt(data, j)), prev)
         \o CbcDecBlocks(key, data, BlockAt(data, j), j + 1)

\* MAC(key, msg): AES-CMAC, 16 bytes
RECURSIVE MacSum(_, _, _)
MacSum(msg, lo, hi) ==
    IF lo > hi THEN 0
    ELSE IF lo = hi THEN (msg[lo] + 1) * (lo * lo + 3 * lo + 7)
    ELSE LET mid == (lo + hi) \div 2
         IN  (MacSum(msg, lo, mid) + MacSum(msg, mid + 1, hi)) % 65521
MAC(key, msg) ==
    LET h == (MacSum(key, 1, Len(key)) * 251 + MacSum(msg, 1, Len(msg)) + Len(msg)) % 65521
    IN  [i \in 1..blockSize |->
            IF (i % 4) \in {1, 2}
            THEN ((h % 256) + 17 * i + key[i]) % 256
            ELSE ((h \div 256) + 29 * i + key[i]) % 256]

createEmptyIv == alloc(blockSize)

\* Variant: the padding is taken to start at the first 0x80 byte
decryptCbcFirstMarker(key, data, iv, removePadding) ==
    IF (Len(data) % blockSize) # 0 THEN Err("blocksize")
    ELSE LET plaintextWithPadding == CbcDecBlocks(key, data, iv, 1)
             hits == {i \in 1..Len(plaintextWithPadding) : plaintextWithPadding[i] = 128}
         IN  IF ~removePadding THEN Ok(plaintextWithPadding)
             ELSE IF hits = {} THEN Err("padding")
             ELSE Ok(subarray(plaintextWithPadding, 0,
                              (CHOOSE i \in hits : \A j \in hits : i <= j) - 1))

decryptCbc(key, data, iv, removePadding) ==
    IF (Len(data) % blockSize) # 0 THEN Err("blocksize")
    ELSE LET plaintextWithPadding == CbcDecBlocks(key, data, iv, 1)
             paddingStart == lastIndexOf(plaintextWithPadding, 128)
         IN  IF ~removePadding THEN Ok(plaintextWithPadding)
             ELSE IF paddingStart < 0 THEN Err("padding")
             ELSE Ok(subarray(plaintextWithPadding, 0, paddingStart))

\* Variant: the whole blocks of the data are encrypted, a rest is dropped
encryptEcbWholeBlocks(key, data) ==
    Ok(EcbBlocks(key, data, 1))

encryptEcb(key, data) ==
    IF (Len(data) % blockSize) # 0 THEN Err("blocksize")
    ELSE Ok(EcbBlocks(key, data, 1))

encryptCbc(key, data, iv, addPadding) ==
    LET dataToPad == data \o <<128>>
        paddingLength == blockSize - (Len(dataToPad) % blockSize)
        padded == IF paddingLength = blockSize THEN dataToPad
                  ELSE dataToPad \o alloc(paddingLength)
    IN  IF addPadding THEN Ok(CbcEncBlocks(key, padded, iv, 1))
        ELSE IF (Len(data) % blockSize) # 0 THEN Err("blocksize")
        ELSE Ok(CbcEncBlocks(key, data, iv, 1))

reduceMac(mac) == [j \in 1..8 |-> IF 2 * j <= Len(mac) THEN mac[2 * j] ELSE 0]

\* Variant: the six XOR bytes taken from the start of RndA
sessionVectorsXorFromStart(RndA, RndB) ==
    LET x6 == [i \in 1..6 |-> XorByte(RndA[i], RndB[i])]
        tail == subarray(RndA, 0, 2) \o x6 \o subarrayFrom(RndB, 6) \o subarrayFrom(RndA, 8)
    IN  [sv1 |-> <<165, 90, 0, 1, 0, 128>> \o tail, sv2 |-> <<90, 165, 0, 1, 0, 128>> \o tail]

\* calcSessionKeys: the two session vectors sv1 and sv2
sessionVectors(RndA, RndB) ==
    LET x6 == [i \in 1..6 |-> XorByte(RndA[2 + i], RndB[i])]
        tail == subarray(RndA, 0, 2) \o x6 \o subarrayFrom(RndB, 6) \o subarrayFrom(RndA, 8)
    IN  [sv1 |-> <<165, 90, 0, 1, 0, 128>> \o tail, sv2 |-> <<90, 165, 0, 1, 0, 128>> \o tail]

calcSessionKeys(key, RndA, RndB) ==
    [sessionEncryptionKey |-> MAC(key, sessionVectors(RndA, RndB).sv1),
     sessionMacKey |-> MAC(key, sessionVectors(RndA, RndB).sv2)]

\* ------------------------------------------------------------------------
\* AES-128 and AES-CMAC as standardised (FIPS 197, RFC 4493): what
\* node:crypto and @nikeee/aes-cmac compute, used for the known answers
\* ------------------------------------------------------------------------
SBox ==
    <<99, 124, 119, 123, 242, 107, 111, 197,  48,   1, 103,  43, 254, 215, 171, 118,
      202, 130, 201, 125, 250,  89,  71, 240, 173, 212, 162, 175, 156, 164, 114, 192,
      183, 253, 147,  38,  54,  63, 247, 204,  52, 165, 229, 241, 113, 216,  49,  21,
        4, 199,  35, 195,  24, 150,   5, 154,   7,  18, 128, 226, 235,  39, 178, 117,
        9, 131,  44,  26,  27, 110,  90, 160,  82,  59, 214, 179,  41, 227,  47, 132,
       83, 209,   0, 237,  32, 252, 177,  91, 106, 203, 190,  57,  74,  76,  88, 207,
      208, 239, 170, 251,  67,  77,  51, 133,  69, 249,   2, 127,  80,  60, 159, 168,
       81, 163,  64, 143, 146, 157,  56, 245, 188, 182, 218,  33,  16, 255, 243, 210,
      205,  12,  19, 236,  95, 151,  68,  23, 196, 167, 126,  61, 100,  93,  25, 115,
       96, 129,  79, 220,  34,  42, 144, 136,  70, 238, 184,  20, 222,  94,  11, 219,
      224,  50,  58,  10,  73,   6,  36,  92, 194, 211, 172,  98, 145, 149, 228, 121,
      231, 200,  55, 109, 141, 213,  78, 169, 108,  86, 244, 234, 101, 122, 174,   8,
      186, 120,  37,  46,  28, 166, 180, 198, 232, 221, 116,  31,  75, 189, 139, 138,
      112,  62, 181, 102,  72,   3, 246,  14,  97,  53,  87, 185, 134, 193,  29, 158,
      225, 248, 152,  17, 105, 217, 142, 148, 155,  30, 135, 233, 206,  85,  40, 223,
      140, 161, 137,  13, 191, 230,  66, 104,  65, 153,  45,  15, 176,  84, 187,  22>>

\* (CHOOSE r \in {e : v \in {x}} : TRUE is e with v the value of x, computed
\* once however often e uses it)
\* multiplication by x (2) and by x + 1 (3) in GF(2^8) modulo x^8 + x^4 + x^3 + x + 1
xtime(b) == IF 2 * b >= 256 THEN XorByte(2 * b - 256, 27) ELSE 2 * b
Times3(b) == XorByte(xtime(b), b)
Xor4(a, b, c, d) == XorByte(XorByte(a, b), XorByte(c, d))
\* a block as 16 bytes, column after column
Xor16(a, b) ==
    CHOOSE out \in {<<XorByte(p[1][1], p[2][1]), XorByte(p[1][2], p[2][2]), XorByte(p[1][3], p[2][3]),
          XorByte(p[1][4], p[2][4]), XorByte(p[1][5], p[2][5]), XorByte(p[1][6], p[2][6]),
          XorByte(p[1][7], p[2][7]), XorByte(p[1][8], p[2][8]), XorByte(p[1][9], p[2][9]),
          XorByte(p[1][10], p[2][10]), XorByte(p[1][11], p[2][11]), XorByte(p[1][12], p[2][12]),
          XorByte(p[1][13], p[2][13]), XorByte(p[1][14], p[2][14]), XorByte(p[1][15], p[2][15]),
          XorByte(p[1][16], p[2][16])>> : p \in {<<a, b>>}} : TRUE
SubBytes(s) ==
    CHOOSE out \in {<<SBox[v[1] + 1], SBox[v[2] + 1], SBox[v[3] + 1], SBox[v[4] + 1],
          SBox[v[5] + 1], SBox[v[6] + 1], SBox[v[7] + 1], SBox[v[8] + 1],
          SBox[v[9] + 1], SBox[v[10] + 1], SBox[v[11] + 1], SBox[v[12] + 1],
          SBox[v[13] + 1], SBox[v[14] + 1], SBox[v[15] + 1], SBox[v[16] + 1]>> : v \in {s}} : TRUE
ShiftRows(s) ==
    CHOOSE out \in {<<v[1], v[6], v[11], v[16], v[5], v[10], v[15], v[4],
          v[9], v[14], v[3], v[8], v[13], v[2], v[7], v[12]>> : v \in {s}} : TRUE
MixColumns(s) ==
    CHOOSE out \in {<<Xor4(xtime(v[1]), Times3(v[2]), v[3], v[4]),
          Xor4(xtime(v[2]), Times3(v[3]), v[4], v[1]),
          Xor4(xtime(v[3]), Times3(v[4]), v[1], v[2]),
          Xor4(xtime(v[4]), Times3(v[1]), v[2], v[3]),
          Xor4(xtime(v[5]), Times3(v[6]), v[7], v[8]),
          Xor4(xtime(v[6]), Times3(v[7]), v[8], v[5]),
          Xor4(xtime(v[7]), Times3(v[8]), v[5], v[6]),
          Xor4(xtime(v[8]), Times3(v[5]), v[6], v[7]),
          Xor4(xtime(v[9]), Times3(v[10]), v[11], v[12]),
          Xor4(xtime(v[10]), Times3(v[11]), v[12], v[9]),
          Xor4(xtime(v[11]), Times3(v[12]), v[9], v[10]),
          Xor4(xtime(v[12]), Times3(v[9]), v[10], v[11]),
          Xor4(xtime(v[13]), Times3(v[14]), v[15], v[16]),
          Xor4(xtime(v[14]), Times3(v[15]), v[16], v[13]),
          Xor4(xtime(v[15]), Times3(v[16]), v[13], v[14]),
          Xor4(xtime(v[16]), Times3(v[13]), v[14], v[15])>> : v \in {s}} : TRUE

\* the round constants and the key schedule: round key r from round key r - 1
Rcon == <<1, 2, 4, 8, 16, 32, 64, 128, 27, 54>>
RoundKeyFrom(k, r) ==
    LET w0 == <<Xor4(k[1], SBox[k[14] + 1], Rcon[r], 0), XorByte(k[2], SBox[k[15] + 1]),
                XorByte(k[3], SBox[k[16] + 1]), XorByte(k[4], SBox[k[13] + 1])>>
        w1 == <<XorByte(k[5], w0[1]), XorByte(k[6], w0[2]),
                XorByte(k[7], w0[3]), XorByte(k[8], w0[4])>>
        w2 == <<XorByte(k[9], w1[1]), XorByte(k[10], w1[2]),
                XorByte(k[11], w1[3]), XorByte(k[12], w1[4])>>
        w3 == <<XorByte(k[13], w2[1]), XorByte(k[14], w2[2]),
                XorByte(k[15], w2[3]), XorByte(k[16], w2[4])>>
    IN  w0 \o w1 \o w2 \o w3
NextRoundKey(k, r) == CHOOSE out \in {RoundKeyFrom(v, r) : v \in {k}} : TRUE
\* rounds r..10 on state s, k being round key r - 1
RECURSIVE AesRounds(_, _, _)
AesRounds(s, k, r) ==
    CHOOSE out \in {IF r = 10 THEN Xor16(ShiftRows(SubBytes(p[1])), p[2])
                    ELSE AesRounds(Xor16(MixColumns(ShiftRows(SubBytes(p[1]))), p[2]), p[2], r + 1) :
                        p \in {<<s, NextRoundKey(k, r)>>}} : TRUE
Aes128(key, blk) == CHOOSE out \in {AesRounds(Xor16(p[2], p[1]), p[1], 1) : p \in {<<key, blk>>}} : TRUE

\* RFC 4493: the subkeys, doubling in GF(2^128)
DoubleOf(b) ==
    LET shifted == [i \in 1..16 |->
                        ((2 * b[i]) % 256) + (IF i < 16 THEN b[i + 1] \div 128 ELSE 0)]
    IN  IF b[1] >= 128 THEN [shifted EXCEPT ![16] = XorByte(@, 135)] ELSE shifted
CmacDouble(b) == CHOOSE out \in {DoubleOf(v) : v \in {b}} : TRUE
\* the CBC-MAC over the whole blocks 1..n - 1 of msg
RECURSIVE CmacChain(_, _, _, _)
CmacChain(key, msg, x, j) ==
    IF j * 16 >= Len(msg) THEN x
    ELSE CHOOSE out \in {CmacChain(key, msg, y, j + 1) :
                            y \in {Aes128(key, Xor16(x, SubSeq(msg, (j - 1) * 16 + 1, j * 16)))}} : TRUE
\* the last block: XORed with K1 when whole, padded and XORed with K2 otherwise
CmacLast(key, msg, k1) ==
    LET n == IF Len(msg) = 0 THEN 1 ELSE (Len(msg) + 15) \div 16
        rest == SubSeq(msg, (n - 1) * 16 + 1, Len(msg))
        last == IF Len(rest) = 16 THEN Xor16(rest, k1)
                ELSE Xor16(rest \o <<128>> \o [i \in 1..(15 - Len(rest)) |-> 0], CmacDouble(k1))
    IN  Aes128(key, Xor16(CmacChain(key, msg, [i \in 1..16 |-> 0], 1), last))
AesCmac(key, msg) ==
    CHOOSE out \in {CmacLast(p[1], p[2], p[3]) :
                        p \in {<<key, msg, CmacDouble(Aes128(key, [i \in 1..16 |-> 0]))>>}} : TRUE

\* calcSessionKeys with aesCmac as the library computes it
calcSessionKeysAes(key, RndA, RndB) ==
    [sessionEncryptionKey |-> AesCmac(key, sessionVectors(RndA, RndB).sv1),
     sessionMacKey |-> AesCmac(key, sessionVectors(RndA, RndB).sv2)]

\* crc: crcjam of the `crc` package, the CRC-32 register (reflected polynomial
\* 0xEDB88320, initial value 0xFFFFFFFF) without the final complement
CrcPolynomial ==
    <<0, 0, 0, 0, 0, 1, 0, 0,  1, 1, 0, 0, 0, 0, 0, 1,
      0, 0, 0, 1, 1, 1, 0, 1,  1, 0, 1, 1, 0, 1, 1, 1>>
CrcInitial == [i \in 1..32 |-> 1]
\* one bit of the register: shift right, fold the polynomial in when a 1 left
CrcShift(reg) ==
    IF reg[1] = 1
    THEN [i \in 1..32 |-> IF i = 32 THEN CrcPolynomial[i] ELSE (reg[i + 1] + CrcPolynomial[i]) % 2]
    ELSE [i \in 1..32 |-> IF i = 32 THEN 0 ELSE reg[i + 1]]
\* the bits of a byte, least significant first
ByteBits(b) ==
    <<b % 2, (b \div 2) % 2, (b \div 4) % 2, (b \div 8) % 2,
      (b \div 16) % 2, (b \div 32) % 2, (b \div 64) % 2, (b \div 128) % 2>>
CrcByte(reg, b) ==
    LET bits == ByteBits(b)
        mixed == [i \in 1..32 |-> IF i <= 8 THEN (reg[i] + bits[i]) % 2 ELSE reg[i]]
    IN  CrcShift(CrcShift(CrcShift(CrcShift(CrcShift(CrcShift(CrcShift(CrcShift(mixed))))))))
\* the register after bytes i.. of buf, starting from reg
RECURSIVE CrcFold(_, _, _)
CrcFold(buf, i, reg) ==
    IF i > Len(buf) THEN reg
    ELSE LET next == CrcByte(reg, buf[i])
         IN  IF next[1] >= 0 THEN CrcFold(buf, i + 1, next) ELSE next
crc(buf) == CrcFold(buf, 1, CrcInitial)

\* ------------------------------------------------------------------------
\* Session key derivation (src/src/crypto/session.ts)
\* ------------------------------------------------------------------------
\* (variant: the RndA comparison is missing)
deriveSessionKeysUnchecked(key, ecRndAp, rndA, rndB) ==
    LET dec == decryptCbc(key, ecRndAp, createEmptyIv, FALSE)
        keys == calcSessionKeys(key, rndA, rndB)
    IN  IF ~dec.ok THEN Err(dec.err)
        ELSE Ok([TI |-> subarray(dec.val, 0, 4),
                 sessionEncryptionKey |-> keys.sessionEncryptionKey,
                 sessionMacKey |-> keys.sessionMacKey])

deriveSessionKeys(key, ecRndAp, rndA, rndB) ==
    LET dec == decryptCbc(key, ecRndAp, createEmptyIv, FALSE)
        TI == subarray(dec.val, 0, 4)
        rndAp == subarray(dec.val, 4, 20)
        rndA2 == rotateRight(rndAp)
        keys == calcSessionKeys(key, rndA, rndB)
    IN  IF ~dec.ok THEN Err(dec.err)
        ELSE IF ~BufferEquals(rndA, rndA2) THEN Err("rndA")
        ELSE Ok([TI |-> TI,
                 sessionEncryptionKey |-> keys.sessionEncryptionKey,
                 sessionMacKey |-> keys.sessionMacKey])

\* ------------------------------------------------------------------------
\* ResponseStatus / CommandResponse (src/unnamed/part_000)
\* ------------------------------------------------------------------------
\* new ResponseStatus(status): throws unless the buffer has 2 bytes
ResponseStatus(status) == IF Len(status) # 2 THEN Err("length") ELSE Ok(status)

\* (variant: `&&` between the SW1 test and the SW2 test)
isOkEither(status) ==
    ~((status[1] # 144 /\ status[1] # 145) /\ (status[2] # 0 /\ status[2] # 175))

\* ResponseStatus.isOk on the two status bytes
isOk(status) ==
    ~((status[1] # 144 /\ status[1] # 145) \/ (status[2] # 0 /\ status[2] # 175))

\* new CommandResponse(status, data)
CommandResponse(status, data) == [status |-> status, data |-> data]
isError(res) == ~isOk(res.status)
\* CommandResponse.create(status, data)
create(status, data) ==
    LET s == ResponseStatus(status)
    IN  IF ~s.ok THEN s ELSE Ok(CommandResponse(s.val, data))

\* CommandResponse.getDataOrThrow
getDataOrThrow(res) ==
    IF ~isOk(res.status) THEN Err("status")
    ELSE IF IsNull(res.data) THEN Err("nodata")
    ELSE Ok(Val(res.data))

\* CommandResponse.throwIfError
throwIfError(res) == IF ~isOk(res.status) THEN Err("status") ELSE Ok(<<>>)

\* ------------------------------------------------------------------------
\* Configuration codec (src/src/serializer/configuration.ts)
\* ------------------------------------------------------------------------
\* A ConfigurationUpdate; the fields its `type` does not use keep these values.
ConfigurationUpdate(type) ==
    [type |-> type, useRandomId |-> TRUE, disableChainedWriteData |-> FALSE,
     enableLrp |-> FALSE, pdCap2_5 |-> 0, pdCap2_6 |-> 0,
     enableFailedCounter |-> FALSE, totalFailCounterLimit |-> 1000,
     totalFailCounterDecrement |-> 10, backModulation |-> "strong"]

\* serializeConfigurationUpdate: [header, data], or a validation error
serializeConfigurationUpdate(config) ==
    CASE config.type = "picc" ->
            IF ~config.useRandomId THEN Err("config")
            ELSE Ok([header |-> 0, data |-> <<2>>])
      [] config.type = "sdm" ->
            Ok([header |-> 4, data |-> <<0, IF config.disableChainedWriteData THEN 4 ELSE 0>>])
      [] config.type = "capability" ->
            Ok([header |-> 5,
                data |-> <<0, 0, 0, 0, IF config.enableLrp THEN 2 ELSE 0, 0, 0, 0,
                           config.pdCap2_5 % 256, config.pdCap2_6 % 256>>])
      [] config.type = "authFailCounter" ->
            IF config.enableFailedCounter
            THEN IF 0 <= config.totalFailCounterLimit \/ config.totalFailCounterLimit < 65535
                 THEN Err("config")
                 ELSE IF 0 <= config.totalFailCounterDecrement
                         \/ config.totalFailCounterDecrement < 65535
                 THEN Err("config")
                 ELSE IF ~FitsUInt16(config.totalFailCounterLimit)
                         \/ ~FitsUInt16(config.totalFailCounterDecrement)
                 THEN Err("range")
                 ELSE Ok([header |-> 10,
                          data |-> <<1>> \o u16le(config.totalFailCounterLimit)
                                        \o u16le(config.totalFailCounterDecrement)])
            ELSE Ok([header |-> 10, data |-> <<0, 0, 0, 0, 0>>])
      [] config.type = "hardware" ->
            Ok([header |-> 11, data |-> <<IF config.backModulation = "strong" THEN 1 ELSE 0>>])
      [] OTHER -> Err("never")

\* ------------------------------------------------------------------------
\* File settings (src/src/serializer/fileSettings.test.ts, from line 415)
\* ------------------------------------------------------------------------
\* a | b on non-negative integers of up to n bits
RECURSIVE OrBits(_, _, _)
OrBits(a, b, n) ==
    IF n = 0 THEN 0
    ELSE (IF (a % 2) + (b % 2) > 0 THEN 1 ELSE 0) + 2 * OrBits(a \div 2, b \div 2, n - 1)
BitOr(a, b) == OrBits(a, b, 16)

\* ensureInRange.inclusive / exclusive / fullExclusive: throw outside the range
ensureInRangeInclusive(lower, value, upper) ==
    IF ~(lower <= value /\ value <= upper) THEN Err("bounds") ELSE Ok(<<>>)
ensureInRangeExclusive(lower, value, upper) ==
    IF ~(lower <= value /\ value < upper) THEN Err("bounds") ELSE Ok(<<>>)
ensureInRangeFullExclusive(lower, value, upper) ==
    IF ~(lower < value /\ value < upper) THEN Err("bounds") ELSE Ok(<<>>)

\* result.writeUint8(value, index): a RangeError outside 0..255
writeUint8(value) == IF value < 0 \/ value > 255 THEN Err("range") ELSE Ok(<<value>>)
\* result.writeUintLE(value, index, 3): a RangeError outside 0..2^24 - 1
U24Limit == 256 * 256 * 256
\* Variant: the three bytes most significant first
writeUintBE3(value) ==
    IF value < 0 \/ value >= U24Limit THEN Err("range")
    ELSE Ok(<<(value \div 65536) % 256, (value \div 256) % 256, value % 256>>)
writeUintLE3(value) ==
    IF value < 0 \/ value >= U24Limit THEN Err("range")
    ELSE Ok(<<value % 256, (value \div 256) % 256, (value \div 65536) % 256>>)

\* two writes or checks in sequence: the first that throws ends the function
Then(a, b) == IF ~a.ok THEN a ELSE IF ~b.ok THEN b ELSE Ok(a.val \o b.val)
\* commModes[commMode]
commModeBits(commMode) ==
    CASE commMode = "plain" -> 0 [] commMode = "mac" -> 1 [] commMode = "full" -> 3 [] OTHER -> 0

\* SdmOptions and FileSettings values; a `number | null` field is Null or Some(n)
SdmOptions(metaRead, fileRead, counterRetrieval) ==
    [uidOffset |-> Null, readCounterOffset |-> Null, piccDataOffset |-> Null,
     macInputOffset |-> Null, macOffset |-> Null, encryptedFileData |-> Null,
     readCounterLimit |-> Null, encodingMode |-> "ascii",
     accessRights |-> [metaRead |-> metaRead, fileRead |-> fileRead,
                       counterRetrieval |-> counterRetrieval]]
FileSettings(sdmOptions, commMode, read, write, readWrite, change) ==
    [sdmOptions |-> sdmOptions, commMode |-> commMode,
     access |-> [read |-> read, write |-> write, readWrite |-> readWrite, change |-> change]]
TagParams(fileSize, encodedUidLength, encodedReadCounterLength, piccDataLength) ==
    [fileSize |-> fileSize, encodedUidLength |-> encodedUidLength,
     encodedReadCounterLength |-> encodedReadCounterLength, piccDataLength |-> piccDataLength]

\* Variant: piccDataOffset is written when set and never demanded or refused
serializeMetaReadAnyPicc(sdm, tagParams) ==
    IF sdm.accessRights.metaRead = 14 \/ IsNull(sdm.piccDataOffset) THEN Ok(<<>>)
    ELSE Then(ensureInRangeExclusive(0, Val(sdm.piccDataOffset),
                                     tagParams.fileSize - tagParams.piccDataLength),
              writeUintLE3(Val(sdm.piccDataOffset)))

\* serializeForChangeFileSettings, the part under `if (ar.metaRead === 0xe) ... else ...`
serializeMetaRead(sdm, tagParams) ==
    LET ar == sdm.accessRights
        uid == IF IsNull(sdm.uidOffset) THEN Ok(<<>>)
               ELSE Then(ensureInRangeExclusive(0, Val(sdm.uidOffset),
                                                tagParams.fileSize - tagParams.encodedUidLength),
                         writeUintLE3(Val(sdm.uidOffset)))
        ctr == IF IsNull(sdm.readCounterOffset) THEN Ok(<<>>)
               ELSE Then(ensureInRangeExclusive(0, Val(sdm.readCounterOffset),
                                                tagParams.fileSize - tagParams.encodedReadCounterLength),
                         writeUintLE3(Val(sdm.readCounterOffset)))
    IN  IF ar.metaRead = 14 THEN Then(uid, ctr)
        ELSE IF ar.metaRead # 15
        THEN IF IsNull(sdm.piccDataOffset) THEN Err("settings")
             ELSE Then(ensureInRangeExclusive(0, Val(sdm.piccDataOffset),
                                              tagParams.fileSize - tagParams.piccDataLength),
                       writeUintLE3(Val(sdm.piccDataOffset)))
        ELSE IF ~IsNull(sdm.piccDataOffset) THEN Err("settings")
        ELSE Ok(<<>>)

\* Variant: macOffset is written without its range check
serializeFileReadUncheckedMac(sdm, tagParams) ==
    IF sdm.accessRights.fileRead = 15 THEN Ok(<<>>)
    ELSE IF IsNull(sdm.macInputOffset) \/ IsNull(sdm.macOffset) THEN Err("settings")
    ELSE Then(Then(ensureInRangeInclusive(0, Val(sdm.macInputOffset), Val(sdm.macOffset)),
                   writeUintLE3(Val(sdm.macInputOffset))),
              writeUintLE3(Val(sdm.macOffset)))

\* serializeForChangeFileSettings, the part under `if (ar.fileRead !== 0xf)`
serializeFileRead(sdm, tagParams) ==
    LET macInputOffset == Val(sdm.macInputOffset)
        macOffset == Val(sdm.macOffset)
        enc == Val(sdm.encryptedFileData)
        encPart ==
            IF IsNull(sdm.encryptedFileData) THEN Ok(<<>>)
            ELSE Then(Then(ensureInRangeExclusive(macInputOffset, enc.offset, macOffset - 32),
                           ensureInRangeExclusive(32, enc.length, macOffset - enc.offset)),
                      Then(IF (enc.length % 32) # 0 THEN Err("settings") ELSE Ok(<<>>),
                           Then(writeUintLE3(enc.offset), writeUintLE3(enc.length))))
        macCheck ==
            IF IsNull(sdm.encryptedFileData)
            THEN ensureInRangeExclusive(macInputOffset, macOffset, tagParams.fileSize - 16)
            ELSE ensureInRangeFullExclusive(enc.offset + enc.length, macOffset,
                                            tagParams.fileSize - 16)
    IN  IF sdm.accessRights.fileRead = 15 THEN Ok(<<>>)
        ELSE IF IsNull(sdm.macInputOffset) THEN Err("settings")
        ELSE IF IsNull(sdm.macOffset) THEN Err("settings")
        ELSE Then(Then(ensureInRangeInclusive(0, macInputOffset, macOffset),
                       writeUintLE3(macInputOffset)),
                  Then(encPart, Then(macCheck, writeUintLE3(macOffset))))

\* serializeForChangeFileSettings: the bytes of ChangeFileSettings, or the error
serializeForChangeFileSettings(settings, tagParams) ==
    LET sdm == Val(settings.sdmOptions)
        access == settings.access
        ar == sdm.accessRights
        fileOption == BitOr(IF IsNull(settings.sdmOptions) THEN 0 ELSE 64,
                            commModeBits(settings.commMode))
        head == Then(writeUint8(fileOption),
                     Then(writeUint8(BitOr((access.readWrite % 16) * 16, access.change % 16)),
                          writeUint8(BitOr((access.read % 16) * 16, access.write % 16))))
        intSdmOptions ==
            (IF IsNull(sdm.uidOffset) THEN 0 ELSE 128)
            + (IF IsNull(sdm.readCounterOffset) THEN 0 ELSE 64)
            + (IF IsNull(sdm.readCounterLimit) THEN 0 ELSE 32)
            + (IF IsNull(sdm.encryptedFileData) THEN 0 ELSE 16)
            + (IF sdm.encodingMode = "ascii" THEN 1 ELSE 0)
        sdmHead == Then(writeUint8(intSdmOptions),
                        Then(writeUint8(BitOr(240, ar.counterRetrieval)),
                             writeUint8(BitOr(ar.metaRead * 16, ar.fileRead))))
        limit == IF IsNull(sdm.readCounterLimit) THEN Ok(<<>>)
                 ELSE writeUintLE3(Val(sdm.readCounterLimit))
    IN  IF IsNull(settings.sdmOptions) THEN head
        ELSE Then(Then(head, sdmHead),
                  Then(serializeMetaRead(sdm, tagParams),
                       Then(serializeFileRead(sdm, tagParams), limit)))

\* commModeLookup[bits]: no entry for 0b10, the lookup yields undefined
commModeLookup(bits) ==
    CASE bits = 0 -> "plain" [] bits = 1 -> "mac" [] bits = 3 -> "full" [] OTHER -> "undefined"

\* bit `n` (0 = least significant) of a byte: !!(value & (1 << n))
HasBit(value, n) == ((value \div (2 ^ n)) % 2) = 1
\* the high or low nibble `n` (0 = least significant) of an integer: (v >> 4n) & 0xf
Nibble(value, n) == (value \div (16 ^ n)) % 16
\* an offset read with readUintLE(index, 3) when `present`, otherwise null
OffsetAt(buffer, index, present) ==
    IF present THEN Some(readUintLE(buffer, index, 3)) ELSE Null

\* parseFromGetFileSettings after fileType, fileOption, access rights and
\* fileSize were read and SDM is enabled: the SDM part from offset 7
parseSdmOptions(buffer, commMode, access, fileSize) ==
    LET intSdmOptions == buffer[8]
        mirrorUid == HasBit(intSdmOptions, 7)
        mirrorReadCounter == HasBit(intSdmOptions, 6)
        hasReadCounterLimit == HasBit(intSdmOptions, 5)
        encFileData == HasBit(intSdmOptions, 4)
        intSdmAccessRights == readUintLE(buffer, 8, 2)
        metaRead == Nibble(intSdmAccessRights, 3)
        fileRead == Nibble(intSdmAccessRights, 2)
        counterRetrieval == Nibble(intSdmAccessRights, 0)
        hasUid == metaRead = 14 /\ mirrorUid
        hasCtr == metaRead = 14 /\ mirrorReadCounter
        hasPicc == 0 <= metaRead /\ metaRead <= 4
        hasFile == fileRead # 15
        hasEnc == hasFile /\ encFileData
        hasLimit == hasFile /\ hasReadCounterLimit
        iUid == 10
        iCtr == iUid + (IF hasUid THEN 3 ELSE 0)
        iPicc == iCtr + (IF hasCtr THEN 3 ELSE 0)
        iMacInput == iPicc + (IF hasPicc THEN 3 ELSE 0)
        iEnc == iMacInput + (IF hasFile THEN 3 ELSE 0)
        iMac == iEnc + (IF hasEnc THEN 6 ELSE 0)
        iLimit == iMac + (IF hasFile THEN 3 ELSE 0)
        index == iLimit + (IF hasLimit THEN 3 ELSE 0)
    IN  IF Len(buffer) < 8 THEN Err("range")
        ELSE IF ~HasBit(intSdmOptions, 0) THEN Err("encoding")
        ELSE IF Len(buffer) < 10 THEN Err("range")
        ELSE IF Len(buffer) < index THEN Err("range")
        ELSE IF index # Len(buffer) THEN Err("trailing")
        ELSE Ok([fileType |-> 0, accessRights |-> access, fileSize |-> fileSize,
                 commMode |-> commMode,
                 sdmOptions |-> Some(
                    [uidOffset |-> OffsetAt(buffer, iUid, hasUid),
                     readCounterOffset |-> OffsetAt(buffer, iCtr, hasCtr),
                     piccDataOffset |-> OffsetAt(buffer, iPicc, hasPicc),
                     macInputOffset |-> OffsetAt(buffer, iMacInput, hasFile),
                     macOffset |-> OffsetAt(buffer, iMac, hasFile),
                     encryptedFileData |->
                        IF hasEnc
                        THEN Some([offset |-> readUintLE(buffer, iEnc, 3),
                                   length |-> readUintLE(buffer, iEnc + 3, 3)])
                        ELSE Null,
                     readCounterLimit |-> OffsetAt(buffer, iLimit, hasLimit),
                     encodingMode |-> "ascii",
                     accessRights |-> [metaRead |-> metaRead, fileRead |-> fileRead,
                                       counterRetrieval |-> counterRetrieval]])])

\* Variant: parseFromGetFileSettings without the final check that the whole
\* buffer was consumed when SDM is disabled
parseFromGetFileSettingsIgnoresRest(buffer) ==
    LET fileOption == buffer[2]
        intAccessRights == readUintLE(buffer, 2, 2)
        access == [read |-> Nibble(intAccessRights, 3), write |-> Nibble(intAccessRights, 2),
                   readWrite |-> Nibble(intAccessRights, 1), change |-> Nibble(intAccessRights, 0)]
    IN  IF Len(buffer) < 1 THEN Err("range")
        ELSE IF buffer[1] # 0 THEN Err("fileType")
        ELSE IF Len(buffer) < 7 THEN Err("range")
        ELSE IF HasBit(fileOption, 6)
        THEN parseSdmOptions(buffer, commModeLookup(fileOption % 4), access,
                             readUintLE(buffer, 4, 3))
        ELSE Ok([fileType |-> 0, accessRights |-> access, fileSize |-> readUintLE(buffer, 4, 3),
                 commMode |-> commModeLookup(fileOption % 4), sdmOptions |-> Null])

\* parseFromGetFileSettings: the parsed settings, or the error thrown (a read
\* past the end of the buffer is a RangeError; console.assert does not throw)
parseFromGetFileSettings(buffer) ==
    LET fileOption == buffer[2]
        sdmEnabled == HasBit(fileOption, 6)
        commMode == commModeLookup(fileOption % 4)
        intAccessRights == readUintLE(buffer, 2, 2)
        access == [read |-> Nibble(intAccessRights, 3), write |-> Nibble(intAccessRights, 2),
                   readWrite |-> Nibble(intAccessRights, 1), change |-> Nibble(intAccessRights, 0)]
        fileSize == readUintLE(buffer, 4, 3)
    IN  IF Len(buffer) < 1 THEN Err("range")
        ELSE IF buffer[1] # 0 THEN Err("fileType")
        ELSE IF Len(buffer) < 7 THEN Err("range")
        ELSE IF sdmEnabled THEN parseSdmOptions(buffer, commMode, access, fileSize)
        ELSE IF Len(buffer) # 7 THEN Err("trailing")
        ELSE Ok([fileType |-> 0, accessRights |-> access, fileSize |-> fileSize,
                 commMode |-> commMode, sdmOptions |-> Null])

\* ------------------------------------------------------------------------
\* Offline SDM validation (src/src/crypto/aes/validation.ts)
\* ------------------------------------------------------------------------
\* (variant: the vector ends after the fields that were given, and a counter
\* of 0 is written as a field)
createSessionVectorSized(prefix, uid, counter) ==
    IF Len(prefix) + (IF IsNull(uid) THEN 0 ELSE Len(Val(uid))) + 3 > 16 THEN Err("length")
    ELSE IF IsNull(counter) THEN Ok(prefix \o (IF IsNull(uid) THEN <<>> ELSE Val(uid)))
    ELSE Then(writeUintLE3(Val(counter)),
              Ok(prefix \o (IF IsNull(uid) THEN <<>> ELSE Val(uid)) \o writeUintLE3(Val(counter)).val))

\* createSessionVector(prefix, uid, counter): 16 zero bytes with the prefix,
\* the uid when given, and the counter when it is truthy (neither null nor 0)
createSessionVector(prefix, uid, counter) ==
    LET uidBytes == IF IsNull(uid) THEN <<>> ELSE Val(uid)
        offset == Len(prefix) + Len(uidBytes)
        written == IF IsNull(counter) \/ Val(counter) = 0 THEN Ok(<<>>)
                   ELSE writeUintLE3(Val(counter))
    IN  IF Len(prefix) + Len(uidBytes) + 3 > 16 THEN Err("length")
        ELSE IF ~written.ok THEN written
        ELSE Ok(prefix \o uidBytes \o written.val \o alloc(16 - offset - Len(written.val)))

\* Variant: the signature is compared with the first 8 bytes of the MAC
validatePlainPiccMacUnreduced(fileReadKey, uid, counter, signatureMac) ==
    LET sv2 == createSessionVector(<<60, 195, 0, 1, 0, 128>>, uid, counter)
    IN  IF ~sv2.ok THEN sv2
        ELSE Ok(BufferEquals(subarray(MAC(MAC(fileReadKey, sv2.val), <<>>), 0, 8),
                             signatureMac))

\* validatePlainPiccMac(fileReadKey, uid, counter, signatureMac): a boolean
validatePlainPiccMac(fileReadKey, uid, counter, signatureMac) ==
    LET sv2 == createSessionVector(<<60, 195, 0, 1, 0, 128>>, uid, counter)
        SesSDMFileReadMAC == MAC(fileReadKey, sv2.val)
        expectedMac == MAC(SesSDMFileReadMAC, <<>>)
    IN  IF ~sv2.ok THEN sv2
        ELSE Ok(BufferEquals(reduceMac(expectedMac), signatureMac))

\* validateAndDecryptPicc: { uid, counter } (Some), null, or the error thrown
validateAndDecryptPicc(decryptionKey, macKey, encryptedPicc, signatureMac) ==
    LET decrypted == decryptCbc(decryptionKey, encryptedPicc, createEmptyIv, FALSE)
        tag == IF Len(decrypted.val) = 0 THEN 0 ELSE decrypted.val[1]
        hasUid == HasBit(tag, 7)
        uid == IF hasUid THEN Some(subarray(decrypted.val, 1, 8)) ELSE Null
        index == IF hasUid THEN 8 ELSE 1
        hasCounter == HasBit(tag, 6)
        counter == IF hasCounter THEN Some(readUintLE(decrypted.val, index, 3)) ELSE Null
        isValid == validatePlainPiccMac(macKey, uid, counter, signatureMac)
    IN  IF ~decrypted.ok THEN decrypted
        ELSE IF ~isValid.ok THEN isValid
        ELSE Ok(IF isValid.val THEN Some([uid |-> uid, counter |-> counter]) ELSE Null)

\* ------------------------------------------------------------------------
\* The tag session (src/src/index.ts, createTagSession)
\* ------------------------------------------------------------------------
VARIABLES
    options,          \* the Partial<TagSessionOptions> given to createTagSession
    commandCounter,   \* let commandCounter
    authentication,   \* let authentication: EncryptionParams | undefined
    calls,            \* per caller: the public operation in flight or its outcome
    authCompleted,    \* history: some authenticate call has returned normally
    probe             \* a function of the library applied on its own: its name,
                      \* its input and what it returned or threw

vars == <<options, commandCounter, authentication, calls, authCompleted, probe>>

\* Callers that may have an operation in flight on the session.
Callers == {"c1", "c2"}
\* Commands are issued one at a time: a single caller.
SeqCallers == {"c1"}

\* the closure state an operation reads and writes
State == [commandCounter |-> commandCounter, authentication |-> authentication]
Effect(ctr, auth, call) == [commandCounter |-> ctr, authentication |-> auth, call |-> call]

\* A call: the public operation, where it is suspended (pc), its arguments
\* and locals, what it transmitted, and how it ended.
\*   pc        "idle" | "plain" | "mac" | "full" | "decrypt" | "auth1" | "import"
\*             | "auth2" | "select" | "iso" | "uid" | "done"
\*   ctr0/auth0  commandCounter / authentication when the operation was invoked
\*   resp      the bytes reader.transmit resolved with last (Null: none, or it threw)
\*   macResult   in sendEncrypted: the CommandResponse sendWithMac resolved with
\*   sendResult  the CommandResponse the dispatcher returned to the operation
\*   error     "" or the kind of Error the operation threw
\*   value     the Buffer the operation returned, if any
\*   failedFrame  (history, kept until the call's next step) the frame of the
\*             caller's previous call when that call failed in reader.transmit
\*             and this one repeats its request
IdleCall ==
    [op |-> "none", pc |-> "idle", commMode |-> "", command |-> 0, header |-> <<>>,
     data |-> Null, key |-> <<>>, rndA |-> <<>>, rndB |-> <<>>,
     frame |-> <<>>, nframes |-> 0, maxLen |-> 0, ctr0 |-> 0, auth0 |-> Null,
     resp |-> Null, macResult |-> Null, sendResult |-> Null, error |-> "", value |-> Null,
     failedFrame |-> Null]

NewCall(st, op) == [IdleCall EXCEPT !.op = op, !.ctr0 = st.commandCounter, !.auth0 = st.authentication]

\* the operation throws / returns
Fail(call, kind) == [call EXCEPT !.pc = "done", !.error = kind]
Return(call, v) == [call EXCEPT !.pc = "done", !.value = v]

\* (variant: the default of the counter is 1)
createTagSessionFromOne(opts) ==
    [commandCounter |-> IF IsNull(opts.initialCommandCounter) THEN 1 ELSE Val(opts.initialCommandCounter),
     authentication |-> opts.authentication]

\* createTagSession: the initial closure state
createTagSession(opts) ==
    [commandCounter |-> IF IsNull(opts.initialCommandCounter) THEN 0 ELSE Val(opts.initialCommandCounter),
     authentication |-> opts.authentication]

isAuthenticated == ~IsNull(authentication)

\* ---- framing --------------------------------------------------------------

\* sendIsoCommand up to reader.transmit: the command buffer
isoFrame(cla, ins, p1, p2, data, le) ==
    <<cla, ins, p1, p2>>
    \o (IF IsNull(data) THEN <<>> ELSE <<Len(Val(data)) % 256>> \o Val(data))
    \o (IF IsNull(le) THEN <<>> ELSE <<Val(le) % 256>>)

\* sendNativeCommand: header || data? || mac? in an ISO frame, CLA 0x90, Le 0
nativeFrame(command, header, data, macData) ==
    isoFrame(144, command, 0, 0,
             Some(header \o (IF IsNull(data) THEN <<>> ELSE Val(data))
                         \o (IF IsNull(macData) THEN <<>> ELSE Val(macData))),
             Some(0))

\* reader.transmit(commandBuffer, 0x80) is called and the call suspends at `pc`
Transmit(call, frame, pc) ==
    [call EXCEPT !.frame = frame, !.nframes = @ + 1, !.maxLen = 128, !.pc = pc]

\* send (deprecated): reader.transmit(value, responseMaxLength), whose default
\* is 40, and the call suspends at `pc`
responseMaxLength == 40
send(call, value, pc) ==
    [call EXCEPT !.frame = value, !.nframes = @ + 1, !.maxLen = responseMaxLength, !.pc = pc]

\* sendIsoCommand after reader.transmit: `t` is Null when transmit threw
sendIsoResume(t) ==
    IF IsNull(t) THEN Err("transport")
    ELSE IF Len(Val(t)) < 2 THEN Err("malformed")
    ELSE Ok(CommandResponse(subarrayFrom(Val(t), -2),
                            IF Len(Val(t)) > 2 THEN Some(subarray(Val(t), 0, -2)) ELSE Null))

\* ---- dispatcher: up to the transmit ----------------------------------------

\* ++commandCounter in sendPlainCommand, before the send
plainIncrement(ctr) == ctr + 1

sendPlainCommand(st, call, command, header, data) ==
    Effect(plainIncrement(st.commandCounter), st.authentication,
           Transmit(call, nativeFrame(command, header, data, Null), "plain"))

\* the request MAC input of sendWithMac
macIn(command, ctr, TI, header, data) ==
    <<command>> \o u16le(ctr) \o TI \o header \o (IF IsNull(data) THEN <<>> ELSE Val(data))

\* (variant: without a session the frame is sent but the command is not counted)
sendWithMacUncounted(st, call, command, header, data, pc) ==
    IF IsNull(st.authentication)
    THEN Effect(st.commandCounter, st.authentication,
                Transmit(call, nativeFrame(command, header, data, Null), "plain"))
    ELSE IF ~FitsUInt16(st.commandCounter)
    THEN Effect(st.commandCounter, st.authentication, Fail(call, "range"))
    ELSE LET auth == Val(st.authentication)
             longMac == MAC(auth.sessionMacKey, macIn(command, st.commandCounter, auth.TI, header, data))
         IN  Effect(st.commandCounter, st.authentication,
                    Transmit(call, nativeFrame(command, header, data, Some(reduceMac(longMac))), pc))

\* sendWithMac up to the transmit; `pc` names the continuation (sendWithMac
\* itself, or sendEncrypted awaiting it)
sendWithMac(st, call, command, header, data, pc) ==
    IF IsNull(st.authentication) THEN sendPlainCommand(st, call, command, header, data)
    ELSE IF ~FitsUInt16(st.commandCounter)
    THEN Effect(st.commandCounter, st.authentication, Fail(call, "range"))
    ELSE LET auth == Val(st.authentication)
             longMac == MAC(auth.sessionMacKey, macIn(command, st.commandCounter, auth.TI, header, data))
             macData == reduceMac(longMac)
         IN  Effect(st.commandCounter, st.authentication,
                    Transmit(call, nativeFrame(command, header, data, Some(macData)), pc))

\* the IV of encryptData / decryptData: E(sesEncKey, label || TI || counter || 0^8)
sessionIv(params, label, ctr) ==
    IF ~FitsUInt16(ctr) THEN Err("range")
    ELSE encryptEcb(params.sessionEncryptionKey, label \o params.TI \o u16le(ctr) \o alloc(8))

encryptData(params, ctr, data) ==
    LET iv == sessionIv(params, <<165, 90>>, ctr)
    IN  IF ~iv.ok THEN iv ELSE encryptCbc(params.sessionEncryptionKey, data, iv.val, TRUE)

decryptData(params, ctr, data) ==
    LET iv == sessionIv(params, <<90, 165>>, ctr)
    IN  IF ~iv.ok THEN iv ELSE decryptCbc(params.sessionEncryptionKey, data, iv.val, TRUE)

\* (variant: the authentication check is missing)
sendEncryptedUnchecked(st, call, command, header, plainData) ==
    sendWithMac(st, call, command, header, plainData, "full")

\* (variant: empty data is encrypted too, which pads it to one block)
sendEncryptedPadsEmpty(st, call, command, header, plainData) ==
    IF IsNull(st.authentication)
    THEN Effect(st.commandCounter, st.authentication, Fail(call, "notauth"))
    ELSE LET enc == IF ~IsNull(plainData)
                    THEN encryptData(Val(st.authentication), st.commandCounter, Val(plainData))
                    ELSE Ok(<<>>)
             encryptedData == IF ~IsNull(plainData) THEN Some(enc.val) ELSE plainData
         IN  IF ~enc.ok THEN Effect(st.commandCounter, st.authentication, Fail(call, enc.err))
             ELSE sendWithMac(st, call, command, header, encryptedData, "full")

\* sendEncrypted up to the transmit
sendEncrypted(st, call, command, header, plainData) ==
    IF IsNull(st.authentication)
    THEN Effect(st.commandCounter, st.authentication, Fail(call, "notauth"))
    ELSE LET encrypts == ~IsNull(plainData) /\ Len(Val(plainData)) > 0
             enc == IF encrypts
                    THEN encryptData(Val(st.authentication), st.commandCounter, Val(plainData))
                    ELSE Ok(<<>>)
             encryptedData == IF encrypts THEN Some(enc.val) ELSE plainData
         IN  IF ~enc.ok THEN Effect(st.commandCounter, st.authentication, Fail(call, enc.err))
             ELSE sendWithMac(st, call, command, header, encryptedData, "full")

sendSwitchedCommand(st, call, commMode, command, header, data) ==
    CASE commMode = "plain" -> sendPlainCommand(st, call, command, header, data)
      [] commMode = "mac" -> sendWithMac(st, call, command, header, data, "mac")
      [] commMode = "full" -> sendEncrypted(st, call, command, header, data)
      [] OTHER -> Effect(st.commandCounter, st.authentication, Fail(call, "commMode"))

\* ---- dispatcher: after the transmit ----------------------------------------

\* (variant: the increment after sendNativeCommand is lost)
macIncrementLost(ctr) == ctr

\* ++commandCounter in sendWithMac, after sendNativeCommand returned
macIncrement(ctr) == ctr + 1

\* the response MAC input of sendWithMac
resultMacInput(status, ctr, TI, responseData) ==
    <<status[2]>> \o u16le(ctr) \o TI \o responseData

\* (variant: the early return on an error status is missing)
verifyResponseMacAlways(st, macedResult) ==
    IF IsNull(macedResult.data) THEN Ok(CommandResponse(macedResult.status, Null))
    ELSE LET auth == Val(st.authentication)
             macedPayload == Val(macedResult.data)
             expectedResponseMac ==
                 reduceMac(MAC(auth.sessionMacKey,
                               resultMacInput(macedResult.status, st.commandCounter, auth.TI,
                                              subarray(macedPayload, 0, -8))))
         IN  IF ~FitsUInt16(st.commandCounter) THEN Err("range")
             ELSE IF ~BufferEquals(expectedResponseMac, subarrayFrom(macedPayload, -8)) THEN Err("mac")
             ELSE Ok(CommandResponse(macedResult.status, Some(subarray(macedPayload, 0, -8))))

\* sendWithMac from `if (macedResult.isError())` to its return; st holds the
\* incremented counter
verifyResponseMac(st, macedResult) ==
    IF isError(macedResult) THEN Ok(macedResult)
    ELSE IF IsNull(macedResult.data) THEN Ok(CommandResponse(macedResult.status, Null))
    ELSE LET auth == Val(st.authentication)
             macedPayload == Val(macedResult.data)
             actualResponseMac == subarrayFrom(macedPayload, -8)
             responseData == subarray(macedPayload, 0, -8)
             expectedResponseMac ==
                 reduceMac(MAC(auth.sessionMacKey,
                               resultMacInput(macedResult.status, st.commandCounter, auth.TI, responseData)))
         IN  IF ~FitsUInt16(st.commandCounter) THEN Err("range")
             ELSE IF ~BufferEquals(expectedResponseMac, actualResponseMac) THEN Err("mac")
             ELSE Ok(CommandResponse(macedResult.status, Some(responseData)))

\* (variant: an error result or one without payload is returned as it is)
decryptResultPassesThrough(st, result) ==
    IF isError(result) \/ IsNull(result.data) \/ Len(Val(result.data)) = 0
    THEN Ok(result)
    ELSE LET dec == decryptData(Val(st.authentication), st.commandCounter, Val(result.data))
         IN  IF ~dec.ok THEN dec ELSE Ok(CommandResponse(result.status, Some(dec.val)))

\* sendEncrypted after sendWithMac returned `result`
decryptResult(st, result) ==
    IF isError(result) \/ IsNull(result.data) \/ Len(Val(result.data)) = 0
    THEN Ok(CommandResponse(result.status, Null))
    ELSE LET dec == decryptData(Val(st.authentication), st.commandCounter, Val(result.data))
         IN  IF ~dec.ok THEN dec ELSE Ok(CommandResponse(result.status, Some(dec.val)))

\* getFileCounters after sendEncrypted returned `res`
finishGetFileCounters(c, res) ==
    LET d == getDataOrThrow(res)
    IN  IF ~d.ok THEN Fail(c, d.err)
        ELSE IF Len(d.val) # 5 THEN Fail(c, "counters")
        ELSE IF readUintLE(d.val, 3, 2) # 0 THEN Fail(c, "rfu")
        ELSE Return(c, Some(readUintLE(d.val, 0, 3)))

\* getKeyVersion after sendWithMac returned `res`
finishGetKeyVersion(c, res) ==
    LET d == getDataOrThrow(res)
    IN  IF ~d.ok THEN Fail(c, d.err)
        ELSE IF Len(d.val) # 1 THEN Fail(c, "length")
        ELSE Return(c, Some(d.val[1]))

\* the public operation after the dispatcher (or sendIsoCommand) returned `res`
\*   getCardUid, getFileSettingsRaw, readStandardFile: result.getDataOrThrow;
\*   getFileCounters, getKeyVersion: see above;
\*   writeData, changeKey, setConfiguration, setFileSettings(Raw), selectFile,
\*   writeStandardFile: result.throwIfError
finishOperation(call, res) ==
    LET c == [call EXCEPT !.sendResult = Some(res)]
        d == getDataOrThrow(res)
        e == throwIfError(res)
    IN  CASE call.op \in {"getCardUid", "getFileSettingsRaw", "readStandardFile"}
                -> IF d.ok THEN Return(c, Some(d.val)) ELSE Fail(c, d.err)
          [] call.op = "getFileCounters" -> finishGetFileCounters(c, res)
          [] call.op = "getKeyVersion" -> finishGetKeyVersion(c, res)
          [] OTHER -> IF e.ok THEN Return(c, Null) ELSE Fail(c, e.err)

\* sendPlainCommand after the transmit
plainResume(st, call, t) ==
    LET iso == sendIsoResume(t)
    IN  Effect(st.commandCounter, st.authentication,
               IF ~iso.ok THEN Fail(call, iso.err) ELSE finishOperation(call, iso.val))

\* (variant: an answered ISO command counts as a command of the session)
isoResumeCounted(st, call, t) ==
    LET iso == sendIsoResume(t)
    IN  Effect(IF iso.ok THEN st.commandCounter + 1 ELSE st.commandCounter, st.authentication,
               IF ~iso.ok THEN Fail(call, iso.err) ELSE finishOperation(call, iso.val))

\* sendIsoCommand after the transmit, called by selectFile or writeStandardFile
isoResume(st, call, t) ==
    LET iso == sendIsoResume(t)
    IN  Effect(st.commandCounter, st.authentication,
               IF ~iso.ok THEN Fail(call, iso.err) ELSE finishOperation(call, iso.val))

\* (variant: the result of selectFile is not looked at)
selectResumeUnchecked(st, call, t) ==
    Effect(st.commandCounter, st.authentication,
           IF call.op = "readStandardFile"
           THEN Transmit(call, isoFrame(0, 176, 0, 0, Null, Some(126)), "iso")
           ELSE Transmit(call, isoFrame(0, 214, 0, 0,
                                        IF Len(Val(call.data)) = 0 THEN Null ELSE call.data,
                                        Null), "iso"))

\* after `await selectFile(...)`: writeStandardFile sends ISOUpdateBinary with
\* the contents (no Lc and no data when they are empty, no Le),
\* readStandardFile sends ISOReadBinary with Le 0x80 - 2
selectResume(st, call, t) ==
    LET iso == sendIsoResume(t)
        e == throwIfError(iso.val)
        contents == Val(call.data)
    IN  Effect(st.commandCounter, st.authentication,
               IF ~iso.ok THEN Fail(call, iso.err)
               ELSE IF ~e.ok THEN Fail(call, e.err)
               ELSE IF call.op = "readStandardFile"
               THEN Transmit(call, isoFrame(0, 176, 0, 0, Null, Some(126)), "iso")
               ELSE Transmit(call, isoFrame(0, 214, 0, 0,
                                            IF Len(contents) = 0 THEN Null ELSE Some(contents),
                                            Null), "iso"))

\* getUid after `await send(...)`: the last byte must be 0x00, the UID is the
\* response without its last two bytes
uidResume(st, call, t) ==
    Effect(st.commandCounter, st.authentication,
           IF IsNull(t) THEN Fail(call, "transport")
           ELSE IF Len(Val(t)) = 0 \/ Val(t)[Len(Val(t))] # 0 THEN Fail(call, "uid")
           ELSE Return(call, Some(subarray(Val(t), 0, -2))))

\* (variant: a response-MAC mismatch discards the installed session)
macResumeDropsSession(st, call, t) ==
    LET iso == sendIsoResume(t)
        ctr == macIncrement(st.commandCounter)
        ver == verifyResponseMac([st EXCEPT !.commandCounter = ctr], iso.val)
    IN  IF ~iso.ok THEN Effect(st.commandCounter, st.authentication, Fail(call, iso.err))
        ELSE IF ~ver.ok THEN Effect(ctr, IF ver.err = "mac" THEN Null ELSE st.authentication,
                                    Fail(call, ver.err))
        ELSE Effect(ctr, st.authentication, finishOperation(call, ver.val))

\* (variant: the command is counted although the transmit threw)
macResumeCountsFailure(st, call, t) ==
    LET iso == sendIsoResume(t)
        ctr == macIncrement(st.commandCounter)
        ver == verifyResponseMac([st EXCEPT !.commandCounter = ctr], iso.val)
    IN  IF ~iso.ok THEN Effect(ctr, st.authentication, Fail(call, iso.err))
        ELSE Effect(ctr, st.authentication,
                    IF ~ver.ok THEN Fail(call, ver.err) ELSE finishOperation(call, ver.val))

\* sendWithMac after the transmit
macResume(st, call, t) ==
    LET iso == sendIsoResume(t)
        ctr == macIncrement(st.commandCounter)
        ver == verifyResponseMac([st EXCEPT !.commandCounter = ctr], iso.val)
    IN  IF ~iso.ok THEN Effect(st.commandCounter, st.authentication, Fail(call, iso.err))
        ELSE Effect(ctr, st.authentication,
                    IF ~ver.ok THEN Fail(call, ver.err) ELSE finishOperation(call, ver.val))

\* (variant: the counter is advanced only once the response MAC was accepted)
fullResumeCountsAccepted(st, call, t) ==
    LET iso == sendIsoResume(t)
        ctr == macIncrement(st.commandCounter)
        ver == verifyResponseMac([st EXCEPT !.commandCounter = ctr], iso.val)
    IN  IF ~iso.ok THEN Effect(st.commandCounter, st.authentication, Fail(call, iso.err))
        ELSE IF ~ver.ok THEN Effect(st.commandCounter, st.authentication, Fail(call, ver.err))
        ELSE Effect(ctr, st.authentication, [call EXCEPT !.macResult = Some(ver.val), !.pc = "decrypt"])

\* sendWithMac after the transmit when sendEncrypted called it: its promise
\* settles and sendEncrypted continues in a later job
fullResume(st, call, t) ==
    LET iso == sendIsoResume(t)
        ctr == macIncrement(st.commandCounter)
        ver == verifyResponseMac([st EXCEPT !.commandCounter = ctr], iso.val)
    IN  IF ~iso.ok THEN Effect(st.commandCounter, st.authentication, Fail(call, iso.err))
        ELSE Effect(ctr, st.authentication,
                    IF ~ver.ok THEN Fail(call, ver.err)
                    ELSE [call EXCEPT !.macResult = Some(ver.val), !.pc = "decrypt"])

\* sendEncrypted from `const result = await sendWithMac(...)` to its return
decryptResume(st, call) ==
    LET dec == decryptResult(st, Val(call.macResult))
    IN  Effect(st.commandCounter, st.authentication,
               IF ~dec.ok THEN Fail(call, dec.err) ELSE finishOperation(call, dec.val))

\* ---- authenticate -----------------------------------------------------------

\* (variant: authStep1 sent through sendPlainCommand, which counts the command)
authStep1Counted(st, call, keyNumber, key) ==
    Effect(st.commandCounter + 1, st.authentication,
           Transmit([call EXCEPT !.key = key],
                    nativeFrame(113, <<keyNumber % 256, 0>>, Null, Null), "auth1"))

\* authenticate up to the first transmit: authStep1 sends 0x71 through
\* sendNativeCommand, which does not touch the command counter
authStep1(st, call, keyNumber, key) ==
    Effect(st.commandCounter, st.authentication,
           Transmit([call EXCEPT !.key = key],
                    nativeFrame(113, <<keyNumber % 256, 0>>, Null, Null), "auth1"))

\* authStep1 after the transmit, then authStep2 up to `await import("node:crypto")`
authStep1Resume(st, call, t) ==
    LET iso == sendIsoResume(t)
        ecRndB == getDataOrThrow(iso.val)
        rndB == decryptCbc(call.key, ecRndB.val, createEmptyIv, FALSE)
    IN  Effect(st.commandCounter, st.authentication,
               IF ~iso.ok THEN Fail(call, iso.err)
               ELSE IF ~ecRndB.ok THEN Fail(call, ecRndB.err)
               ELSE IF ~rndB.ok THEN Fail(call, rndB.err)
               ELSE [call EXCEPT !.rndB = rndB.val, !.pc = "import"])

\* authStep2 from randomBytes to the transmit of 0xAF
authStep2(st, call, rndA) ==
    LET rndBp == rotateLeft(call.rndB)
        message == encryptCbc(call.key, rndA \o rndBp, createEmptyIv, FALSE)
    IN  Effect(st.commandCounter, st.authentication,
               IF ~message.ok THEN Fail(call, message.err)
               ELSE Transmit([call EXCEPT !.rndA = rndA],
                             nativeFrame(175, message.val, Null, Null), "auth2"))

\* (variant: the counter is reset but the new session is not yet assigned)
installSessionResetOnly(st, newAuthentication) ==
    [commandCounter |-> 0, authentication |-> st.authentication]

\* commandCounter = 0; authentication = newAuthentication;
installSession(st, newAuthentication) ==
    [commandCounter |-> 0, authentication |-> Some(newAuthentication)]

\* authStep2 after the transmit, deriveSessionKeys, and the install
authStep2Resume(st, call, t) ==
    LET iso == sendIsoResume(t)
        ecRndAp == getDataOrThrow(iso.val)
        newAuthentication == deriveSessionKeys(call.key, ecRndAp.val, call.rndA, call.rndB)
        inst == installSession(st, newAuthentication.val)
    IN  IF ~iso.ok THEN Effect(st.commandCounter, st.authentication, Fail(call, iso.err))
        ELSE IF ~ecRndAp.ok THEN Effect(st.commandCounter, st.authentication, Fail(call, ecRndAp.err))
        ELSE IF ~newAuthentication.ok
        THEN Effect(st.commandCounter, st.authentication, Fail(call, newAuthentication.err))
        ELSE Effect(inst.commandCounter, inst.authentication, Return(call, Null))

\* ---- public operations ----------------------------------------------------

getCardUid(st, call, commMode) ==
    sendSwitchedCommand(st, [call EXCEPT !.commMode = commMode, !.command = 81],
                        commMode, 81, <<>>, Null)

\* header: fileNumber, offset as u24 LE, length as u24 LE
writeDataHeader(fileNumber, offset, length) ==
    <<fileNumber % 256,
      offset % 256, (offset \div 256) % 256, (offset \div 65536) % 256,
      length % 256, (length \div 256) % 256, (length \div 65536) % 256>>

writeData(st, call, commMode, fileNumber, data, offset) ==
    LET header == writeDataHeader(fileNumber, offset, Len(data))
    IN  sendSwitchedCommand(st, [call EXCEPT !.commMode = commMode, !.command = 141,
                                             !.header = header, !.data = Some(data)],
                            commMode, 141, header, Some(data))

\* (variant: every key number takes newKey || version)
changeKeyPlainLayout(st, call, keyNumber, oldKey, newKey, newKeyVersion) ==
    IF Len(oldKey) # 16 \/ Len(newKey) # 16
    THEN Effect(st.commandCounter, st.authentication, Fail(call, "argument"))
    ELSE sendEncrypted(st, [call EXCEPT !.commMode = "full", !.command = 196,
                                        !.header = <<keyNumber % 256>>,
                                        !.data = Some(newKey \o <<newKeyVersion % 256>>)],
                       196, <<keyNumber % 256>>, Some(newKey \o <<newKeyVersion % 256>>))

\* changeKey: key 0 takes newKey || version, the others
\* (oldKey xor newKey) || version || crc(newKey)
changeKey(st, call, keyNumber, oldKey, newKey, newKeyVersion) ==
    LET keyData == IF keyNumber = 0 THEN newKey \o <<newKeyVersion % 256>>
                   ELSE xor(oldKey, newKey).val \o <<newKeyVersion % 256>> \o u32le(crc(newKey))
        header == <<keyNumber % 256>>
    IN  IF Len(oldKey) # 16 \/ Len(newKey) # 16
        THEN Effect(st.commandCounter, st.authentication, Fail(call, "argument"))
        ELSE sendEncrypted(st, [call EXCEPT !.commMode = "full", !.command = 196,
                                            !.header = header, !.data = Some(keyData)],
                           196, header, Some(keyData))

setConfiguration(st, call, config) ==
    LET ser == serializeConfigurationUpdate(config)
        header == <<ser.val.header % 256>>
    IN  IF ~ser.ok THEN Effect(st.commandCounter, st.authentication, Fail(call, ser.err))
        ELSE sendEncrypted(st, [call EXCEPT !.commMode = "full", !.command = 92,
                                            !.header = header, !.data = Some(ser.val.data)],
                           92, header, Some(ser.val.data))

getFileCounters(st, call, fileNumber) ==
    LET header == <<fileNumber % 32>>
    IN  IF fileNumber < 0 \/ fileNumber > 31
        THEN Effect(st.commandCounter, st.authentication, Fail(call, "argument"))
        ELSE sendEncrypted(st, [call EXCEPT !.commMode = "full", !.command = 246,
                                            !.header = header],
                           246, header, Null)

authenticate(st, call, keyNumber, key) == authStep1(st, call, keyNumber, key)

getFileSettingsRaw(st, call, fileNumber) ==
    LET header == <<fileNumber % 16>>
    IN  IF fileNumber < 0 \/ fileNumber > 15
        THEN Effect(st.commandCounter, st.authentication, Fail(call, "argument"))
        ELSE sendWithMac(st, [call EXCEPT !.commMode = "mac", !.command = 245, !.header = header],
                         245, header, Null, "mac")

getKeyVersion(st, call, keyNumber) ==
    LET header == <<keyNumber % 8>>
    IN  IF keyNumber < 0 \/ keyNumber > 4
        THEN Effect(st.commandCounter, st.authentication, Fail(call, "argument"))
        ELSE sendWithMac(st, [call EXCEPT !.commMode = "mac", !.command = 100, !.header = header],
                         100, header, Null, "mac")

\* (variant: ChangeFileSettings goes through sendWithMac)
setFileSettingsRawWithMac(st, call, fileNumber, value) ==
    LET header == <<fileNumber % 16>>
    IN  IF fileNumber < 0 \/ fileNumber > 15
        THEN Effect(st.commandCounter, st.authentication, Fail(call, "argument"))
        ELSE sendWithMac(st, [call EXCEPT !.commMode = "mac", !.command = 95,
                                          !.header = header, !.data = Some(value)],
                         95, header, Some(value), "mac")

\* setFileSettingsRaw: Plain without a session, Full with one
setFileSettingsRaw(st, call, fileNumber, value) ==
    LET header == <<fileNumber % 16>>
        c == [call EXCEPT !.command = 95, !.header = header, !.data = Some(value)]
    IN  IF fileNumber < 0 \/ fileNumber > 15
        THEN Effect(st.commandCounter, st.authentication, Fail(call, "argument"))
        ELSE IF IsNull(st.authentication)
        THEN sendPlainCommand(st, [c EXCEPT !.commMode = "plain"], 95, header, Some(value))
        ELSE sendEncrypted(st, [c EXCEPT !.commMode = "full"], 95, header, Some(value))

setFileSettings(st, call, fileNumber, value, tagParams) ==
    LET serialized == serializeForChangeFileSettings(value, tagParams)
    IN  IF ~serialized.ok
        THEN Effect(st.commandCounter, st.authentication, Fail(call, serialized.err))
        ELSE setFileSettingsRaw(st, call, fileNumber, serialized.val)

\* selectFile: ISOSelectFile, P2 0x0C, Le 0x80
selectFileFrame(fileId, mode) == isoFrame(0, 164, mode, 12, Some(fileId), Some(128))
selectFile(st, call, fileId, mode) ==
    IF Len(fileId) > 16
    THEN Effect(st.commandCounter, st.authentication, Fail(call, "argument"))
    ELSE Effect(st.commandCounter, st.authentication,
                Transmit([call EXCEPT !.command = 164, !.data = Some(fileId)],
                         selectFileFrame(fileId, mode), "iso"))

\* getUid: the PC/SC pseudo-APDU FF CA 00 00 00 through send
getUid(st, call) ==
    Effect(st.commandCounter, st.authentication, send(call, <<255, 202, 0, 0, 0>>, "uid"))

\* standardFileIds.ndef, isoSelectFileMode.MF_DF_EF
ndef == <<225, 4>>
MF_DF_EF == 0

\* (variant: the length of the contents is checked after the select was sent)
writeStandardFileSelectsFirst(st, call, contents) ==
    LET sent == Transmit([call EXCEPT !.command = 214, !.data = Some(contents)],
                         selectFileFrame(ndef, MF_DF_EF), "select")
    IN  Effect(st.commandCounter, st.authentication,
               IF Len(contents) > 255 THEN Fail(sent, "argument") ELSE sent)

\* readStandardFile up to the transmit of its selectFile
readStandardFile(st, call) ==
    Effect(st.commandCounter, st.authentication,
           Transmit([call EXCEPT !.command = 176], selectFileFrame(ndef, MF_DF_EF), "select"))

\* writeStandardFile up to the transmit of its selectFile
writeStandardFile(st, call, contents) ==
    IF Len(contents) > 255
    THEN Effect(st.commandCounter, st.authentication, Fail(call, "argument"))
    ELSE Effect(st.commandCounter, st.authentication,
                Transmit([call EXCEPT !.command = 214, !.data = Some(contents)],
                         selectFileFrame(ndef, MF_DF_EF), "select"))

\* ------------------------------------------------------------------------
\* Inputs: what callers pass and what the reader answers
\* ------------------------------------------------------------------------
\* Sends are explored while the counter is fewer than MaxCounter commands past
\* 0 or past 0xFFFF (the last value writeUInt16LE accepts).
MaxCounter == 3

KeyA == [i \in 1..blockSize |-> i]
KeyB == [i \in 1..blockSize |-> 3 * i]
CardKey == KeyA
RndA1 == [i \in 1..blockSize |-> 160 + i]
RndA2 == [i \in 1..blockSize |-> 2 * i + 1]
RndB1 == [i \in 1..blockSize |-> 176 + i]
TI1 == <<222, 173, 190, 239>>
Uid7 == <<4, 157, 152, 242, 11, 16, 144>>

\* nodeCrypto.randomBytes(rndB.length): every decrypted RndB here has 16 bytes
RandomBytes == {RndA1, RndA2}

\* a session handed to createTagSession through options.authentication
RestoredAuth ==
    [TI |-> <<1, 2, 3, 4>>,
     sessionEncryptionKey |-> allocFill(blockSize, 17),
     sessionMacKey |-> allocFill(blockSize, 34)]

OptionSets ==
    [authentication : {Null, Some(RestoredAuth)},
     initialCommandCounter : {Null, Some(U16Limit - 1)}]

CommModes == {"plain", "mac", "full"}
WriteDatas == {<<>>, <<72, 105, 128>>}
KeyNumbers == {0}
HostKeys == {KeyA}
\* changeKey(keyNumber, KeyA, newKey, 1)
ChangeKeyNumbers == {0, 1}
NewKeys == {KeyB, <<1, 2, 3>>}
\* getFileCounters(fileNumber)
FileNumbers == {2, 32}
\* setConfiguration(config)
Configurations ==
    {[ConfigurationUpdate("sdm") EXCEPT !.disableChainedWriteData = TRUE],
     [ConfigurationUpdate("authFailCounter") EXCEPT !.enableFailedCounter = TRUE]}
\* getFileSettingsRaw(fileNumber), setFileSettingsRaw(fileNumber, value)
SettingsFileNumbers == {2, 16}
RawSettings == {<<0, 224, 238>>}
\* setFileSettings(2, value, tagParams): settings that serialize, and SDM
\* settings with a key for metaRead but no piccDataOffset
SettingsValues ==
    {FileSettings(Null, "plain", 1, 2, 3, 4),
     FileSettings(Some(SdmOptions(2, 15, 14)), "plain", 14, 0, 0, 0)}
FileTagParams == TagParams(256, 14, 6, 32)
\* getKeyVersion(keyNumber)
VersionKeyNumbers == {0, 5}
\* selectFile(fileId, mode)
FileIds == {ndef, allocFill(17, 1)}
\* writeStandardFile(contents)
FileContents == {<<>>, <<72, 105>>, allocFill(256, 0)}
\* ISO status words: file not found
StatusNotFound == <<106, 130>>
\* GetFileCounters answers: SDMReadCtr (3 bytes) and 2 reserved bytes
Counters5 == <<7, 0, 0, 0, 0>>
CountersRfu == <<7, 0, 0, 1, 0>>

StatusOk == <<145, 0>>
StatusIsoOk == <<144, 0>>
StatusAF == <<145, 175>>
StatusErr == <<145, 126>>
StatusAuthErr == <<145, 174>>

\* the card's response MAC over SW2, its command counter, TI and the body
CardMac(auth, ctr, sw2, body) ==
    reduceMac(MAC(auth.sessionMacKey, <<sw2>> \o u16le(ctr % U16Limit) \o auth.TI \o body))

\* the card's response IV and encrypted body
CardIv(auth, ctr) ==
    encryptEcb(auth.sessionEncryptionKey, <<90, 165>> \o auth.TI \o u16le(ctr % U16Limit) \o alloc(8)).val
CardEncrypt(auth, ctr, plain) ==
    encryptCbc(auth.sessionEncryptionKey, plain, CardIv(auth, ctr), TRUE).val
\* a ciphertext whose plaintext holds no 0x80 marker
CardEncryptUnpadded(auth, ctr) ==
    encryptCbc(auth.sessionEncryptionKey, allocFill(blockSize, 1), CardIv(auth, ctr), FALSE).val

FlipByte(b, i) == [b EXCEPT ![i] = XorByte(@, 1)]

\* what reader.transmit may resolve with while a dispatcher send is suspended
SendResponses(st, call) ==
    LET ctr == IF call.pc = "plain" THEN st.commandCounter ELSE st.commandCounter + 1
        auth == Val(st.authentication)
        bodies == {Uid7, <<>>, CardEncrypt(auth, ctr, Uid7), CardEncryptUnpadded(auth, ctr),
                   CardEncrypt(auth, ctr, Counters5), CardEncrypt(auth, ctr, CountersRfu),
                   allocFill(15, 9)}
                  \cup (IF call.op = "getKeyVersion" THEN {<<1>>} ELSE {})
    IN  {<<145>>, StatusOk, StatusIsoOk, StatusAF, StatusErr, <<66>> \o StatusErr,
         Uid7 \o StatusOk, <<1, 2, 3>> \o StatusOk}
        \cup (IF IsNull(st.authentication) THEN {}
              ELSE {b \o CardMac(auth, ctr, sw2, b) \o <<145, sw2>> : b \in bodies, sw2 \in {0, 175}}
                   \cup {Uid7 \o FlipByte(CardMac(auth, ctr, 0, Uid7), i) \o StatusOk : i \in 1..8}
                   \cup {Uid7 \o CardMac(auth, ctr, 0, Uid7) \o StatusErr})

\* the card's answers in AuthenticateEV2First
CardEcRndB == encryptCbc(CardKey, RndB1, createEmptyIv, FALSE).val
CardEcRndAp(key, rndA) ==
    encryptCbc(key, TI1 \o rotateLeft(rndA) \o alloc(12), createEmptyIv, FALSE).val

Auth1Responses ==
    {<<145>>, StatusAuthErr, StatusAF, CardEcRndB \o StatusAF, CardEcRndB \o StatusOk,
     CardEcRndB \o StatusAuthErr, allocFill(15, 9) \o StatusAF}

Auth2Responses ==
    {<<145>>, StatusAuthErr, StatusOk, allocFill(15, 9) \o StatusOk, allocFill(blockSize, 9) \o StatusOk}
    \cup {CardEcRndAp(k, a) \o sw : k \in {KeyA, KeyB}, a \in RandomBytes, sw \in {StatusOk, StatusAF}}
    \cup {CardEcRndAp(KeyA, a) \o StatusAuthErr : a \in RandomBytes}

\* the answers to ISOSelectFile, ISOUpdateBinary and ISOReadBinary
IsoResponses ==
    {<<144>>, StatusIsoOk, StatusNotFound, <<72, 105>> \o StatusIsoOk, <<72, 105>> \o StatusNotFound}
\* the answers to FF CA 00 00 00
UidResponses == {<<>>, <<0>>, Uid7 \o StatusIsoOk, Uid7 \o <<99, 0>>, StatusNotFound}

Responses(st, call) ==
    CASE call.pc = "auth1" -> Auth1Responses
      [] call.pc = "auth2" -> Auth2Responses
      [] call.pc \in {"select", "iso"} -> IsoResponses
      [] call.pc = "uid" -> UidResponses
      [] OTHER -> SendResponses(st, call)

\* ------------------------------------------------------------------------
\* The state machine
\* ------------------------------------------------------------------------
CounterOffset(ctr) == IF ctr >= U16Limit - 1 THEN ctr - (U16Limit - 1) ELSE ctr
MaySend == CounterOffset(commandCounter) < MaxCounter

\* a caller may invoke an operation once its previous one has settled
Settled(c) == calls[c].pc \in {"idle", "done"}
Suspended(c) ==
    calls[c].pc \in {"plain", "mac", "full", "auth1", "auth2", "select", "iso", "uid"}

\* the caller re-issues the request of its previous call, which failed because
\* reader.transmit threw
IsRetry(old, new) ==
    /\ old.pc = "done" /\ old.error = "transport"
    /\ new.op = old.op /\ new.commMode = old.commMode /\ new.command = old.command
    /\ new.header = old.header /\ new.data = old.data

Apply(c, eff) ==
    /\ commandCounter' = eff.commandCounter
    /\ authentication' = eff.authentication
    /\ calls' = [calls EXCEPT ![c] = IF IsRetry(calls[c], eff.call)
                                      THEN [eff.call EXCEPT !.failedFrame = Some(calls[c].frame)]
                                      ELSE [eff.call EXCEPT !.failedFrame = Null]]
    /\ authCompleted' = (authCompleted \/ (eff.call.op = "authenticate" /\ eff.call.pc = "done"
                                            /\ eff.call.error = ""))
    /\ UNCHANGED <<options, probe>>

\* no function is applied on its own while the session runs
NoProbe == [fn |-> "", input |-> <<>>, output |-> Null]

Init ==
    /\ options \in OptionSets
    /\ commandCounter = createTagSession(options).commandCounter
    /\ authentication = createTagSession(options).authentication
    /\ calls = [c \in Callers |-> IdleCall]
    /\ authCompleted = FALSE
    /\ probe = NoProbe

InvokeGetCardUid(c) ==
    /\ Settled(c)
    /\ MaySend
    /\ \E commMode \in CommModes :
          Apply(c, getCardUid(State, NewCall(State, "getCardUid"), commMode))

InvokeWriteData(c) ==
    /\ Settled(c)
    /\ MaySend
    /\ \E commMode \in CommModes, data \in WriteDatas :
          Apply(c, writeData(State, NewCall(State, "writeData"), commMode, 2, data, 0))

InvokeChangeKey(c) ==
    /\ Settled(c)
    /\ MaySend
    /\ \E keyNumber \in ChangeKeyNumbers, newKey \in NewKeys :
          Apply(c, changeKey(State, NewCall(State, "changeKey"), keyNumber, KeyA, newKey, 1))

InvokeSetConfiguration(c) ==
    /\ Settled(c)
    /\ MaySend
    /\ \E config \in Configurations :
          Apply(c, setConfiguration(State, NewCall(State, "setConfiguration"), config))

InvokeGetFileCounters(c) ==
    /\ Settled(c)
    /\ MaySend
    /\ \E fileNumber \in FileNumbers :
          Apply(c, getFileCounters(State, NewCall(State, "getFileCounters"), fileNumber))

InvokeGetFileSettingsRaw(c) ==
    /\ Settled(c)
    /\ MaySend
    /\ \E fileNumber \in SettingsFileNumbers :
          Apply(c, getFileSettingsRaw(State, NewCall(State, "getFileSettingsRaw"), fileNumber))

InvokeSetFileSettingsRaw(c) ==
    /\ Settled(c)
    /\ MaySend
    /\ \E fileNumber \in SettingsFileNumbers, value \in RawSettings :
          Apply(c, setFileSettingsRaw(State, NewCall(State, "setFileSettingsRaw"), fileNumber, value))

InvokeSetFileSettings(c) ==
    /\ Settled(c)
    /\ MaySend
    /\ \E value \in SettingsValues :
          Apply(c, setFileSettings(State, NewCall(State, "setFileSettings"), 2, value, FileTagParams))

InvokeGetKeyVersion(c) ==
    /\ Settled(c)
    /\ MaySend
    /\ \E keyNumber \in VersionKeyNumbers :
          Apply(c, getKeyVersion(State, NewCall(State, "getKeyVersion"), keyNumber))

InvokeSelectFile(c) ==
    /\ Settled(c)
    /\ \E fileId \in FileIds :
          Apply(c, selectFile(State, NewCall(State, "selectFile"), fileId, MF_DF_EF))

InvokeWriteStandardFile(c) ==
    /\ Settled(c)
    /\ \E contents \in FileContents :
          Apply(c, writeStandardFile(State, NewCall(State, "writeStandardFile"), contents))

InvokeAuthenticate(c) ==
    /\ Settled(c)
    /\ \E keyNumber \in KeyNumbers, key \in HostKeys :
          Apply(c, authenticate(State, NewCall(State, "authenticate"), keyNumber, key))

\* the continuation of a suspended call once reader.transmit has settled
resume(st, call, t) ==
    LET c == [call EXCEPT !.resp = t]
    IN  CASE call.pc = "plain" -> plainResume(st, c, t)
          [] call.pc = "mac" -> macResume(st, c, t)
          [] call.pc = "full" -> fullResume(st, c, t)
          [] call.pc = "auth1" -> authStep1Resume(st, c, t)
          [] call.pc = "auth2" -> authStep2Resume(st, c, t)
          [] call.pc = "select" -> selectResume(st, c, t)
          [] call.pc = "iso" -> isoResume(st, c, t)
          [] call.pc = "uid" -> uidResume(st, c, t)

TransmitReturns(c) ==
    /\ Suspended(c)
    /\ \E r \in Responses(State, calls[c]) : Apply(c, resume(State, calls[c], Some(r)))

TransmitThrows(c) ==
    /\ Suspended(c)
    /\ Apply(c, resume(State, calls[c], Null))

ImportResolves(c) ==
    /\ calls[c].pc = "import"
    /\ \E rndA \in RandomBytes : Apply(c, authStep2(State, calls[c], rndA))

\* sendEncrypted continues with the result of sendWithMac
SendWithMacResolves(c) ==
    /\ calls[c].pc = "decrypt"
    /\ Apply(c, decryptResume(State, calls[c]))

Step(c) ==
    \/ InvokeGetCardUid(c)
    \/ InvokeWriteData(c)
    \/ InvokeChangeKey(c)
    \/ InvokeSetConfiguration(c)
    \/ InvokeGetFileCounters(c)
    \/ InvokeGetFileSettingsRaw(c)
    \/ InvokeSetFileSettingsRaw(c)
    \/ InvokeSetFileSettings(c)
    \/ InvokeGetKeyVersion(c)
    \/ InvokeSelectFile(c)
    \/ InvokeWriteStandardFile(c)
    \/ InvokeAuthenticate(c)
    \/ TransmitReturns(c)
    \/ TransmitThrows(c)
    \/ ImportResolves(c)
    \/ SendWithMacResolves(c)

Next == \E c \in SeqCallers : Step(c)

Spec == Init /\ [][Next]_vars

\* Two operations in flight on the same session: c1 authenticates while c2
\* issues a dispatcher send that was not awaited first.  Each caller invokes
\* one operation; their synchronous runs interleave in every order.
ConcInvoke(c) ==
    /\ calls[c].pc = "idle"
    /\ IF c = "c1" THEN InvokeAuthenticate(c) ELSE (InvokeGetCardUid(c) \/ InvokeWriteData(c))

ConcStep(c) ==
    \/ ConcInvoke(c)
    \/ TransmitReturns(c)
    \/ TransmitThrows(c)
    \/ ImportResolves(c)
    \/ SendWithMacResolves(c)

NextConc == \E c \in Callers : ConcStep(c)

SpecConc == Init /\ [][NextConc]_vars

\* The operations that use no secure messaging: getUid, selectFile,
\* readStandardFile, writeStandardFile, one after the other on a session.
InvokeGetUid(c) ==
    /\ Settled(c)
    /\ Apply(c, getUid(State, NewCall(State, "getUid")))

InvokeReadStandardFile(c) ==
    /\ Settled(c)
    /\ Apply(c, readStandardFile(State, NewCall(State, "readStandardFile")))

IsoStep(c) ==
    \/ InvokeGetUid(c)
    \/ InvokeReadStandardFile(c)
    \/ InvokeSelectFile(c)
    \/ InvokeWriteStandardFile(c)
    \/ TransmitReturns(c)
    \/ TransmitThrows(c)

NextIso == \E c \in SeqCallers : IsoStep(c)

SpecIso == Init /\ [][NextIso]_vars

\* The operations that never reach the dispatcher: the ISO-framed ones and
\* authenticate, one after the other on a session.
RawStep(c) ==
    \/ InvokeGetUid(c)
    \/ InvokeReadStandardFile(c)
    \/ InvokeSelectFile(c)
    \/ InvokeWriteStandardFile(c)
    \/ InvokeAuthenticate(c)
    \/ TransmitReturns(c)
    \/ TransmitThrows(c)
    \/ ImportResolves(c)

NextRaw == \E c \in SeqCallers : RawStep(c)

SpecRaw == Init /\ [][NextRaw]_vars

\* changeKey with the caller's arguments chosen at the start (kept in
\* probe.input), issued one call after the other on a session.
ChangeKeyInputs ==
    [keyNumber : {0, 1, 4},
     oldKey : {KeyA, allocFill(15, 1), allocFill(17, 1)},
     newKey : {KeyB, KeyA, <<1, 2, 3>>, <<>>},
     newKeyVersion : {0, 1, 255}]

InitChangeKey ==
    /\ options \in OptionSets
    /\ commandCounter = createTagSession(options).commandCounter
    /\ authentication = createTagSession(options).authentication
    /\ calls = [c \in Callers |-> IdleCall]
    /\ authCompleted = FALSE
    /\ \E input \in ChangeKeyInputs : probe = [fn |-> "", input |-> input, output |-> Null]

InvokeChangeKeyWith(c) ==
    /\ Settled(c)
    /\ MaySend
    /\ Apply(c, changeKey(State, NewCall(State, "changeKey"), probe.input.keyNumber,
                          probe.input.oldKey, probe.input.newKey, probe.input.newKeyVersion))

ChangeKeyStep(c) ==
    \/ InvokeChangeKeyWith(c)
    \/ TransmitReturns(c)
    \/ TransmitThrows(c)
    \/ SendWithMacResolves(c)

NextChangeKey == \E c \in SeqCallers : ChangeKeyStep(c)

SpecChangeKey == InitChangeKey /\ [][NextChangeKey]_vars

\* ------------------------------------------------------------------------
\* Functions applied on their own
\* ------------------------------------------------------------------------
\* no session activity: the session variables stay at their defaults
IdleSession ==
    /\ options = [authentication |-> Null, initialCommandCounter |-> Null]
    /\ commandCounter = 0
    /\ authentication = Null
    /\ calls = [c \in Callers |-> IdleCall]
    /\ authCompleted = FALSE
Probe(fn, output) ==
    /\ probe.fn = ""
    /\ probe' = [probe EXCEPT !.fn = fn, !.output = Some(output)]
    /\ UNCHANGED <<options, commandCounter, authentication, calls, authCompleted>>

\* ResponseStatus: status buffers of 0 to 3 bytes over these byte values
StatusBytes == {0, 1, 126, 144, 145, 146, 175, 255}
MaxStatusLen == 3
StatusInputs == UNION {[1..n -> StatusBytes] : n \in 0..MaxStatusLen}

InitStatus ==
    /\ IdleSession
    /\ \E status \in StatusInputs : probe = [fn |-> "", input |-> status, output |-> Null]

NewResponseStatus == Probe("ResponseStatus", ResponseStatus(probe.input))
\* isOk() and isError() need an object, which only the constructors yield
CallIsOk ==
    /\ ResponseStatus(probe.input).ok
    /\ Probe("isOk", isOk(ResponseStatus(probe.input).val))
CallIsError ==
    /\ create(probe.input, Null).ok
    /\ Probe("isError", isError(create(probe.input, Null).val))

NextStatus == NewResponseStatus \/ CallIsOk \/ CallIsError

SpecStatus == InitStatus /\ [][NextStatus]_vars

\* FileSettings values given to serializeForChangeFileSettings, with the
\* TagParams of a 256-byte file (FileTagParams): offsets inside and outside
\* the file, fields set and unset under every kind of access right
OrNull(S) == {Null} \cup {Some(n) : n \in S}
EncryptedBlocks == {[offset |-> 48, length |-> 32], [offset |-> 48, length |-> 40],
                    [offset |-> 48, length |-> 96], [offset |-> 100, length |-> 32]}
SdmInputs ==
    {[uidOffset |-> uid, readCounterOffset |-> ctr, piccDataOffset |-> picc,
      macInputOffset |-> macInput, macOffset |-> mac, encryptedFileData |-> enc,
      readCounterLimit |-> limit, encodingMode |-> "ascii",
      accessRights |-> [metaRead |-> metaRead, fileRead |-> fileRead, counterRetrieval |-> 14]] :
        uid \in OrNull({10, 250}), ctr \in OrNull({30}), picc \in OrNull({20, 230}),
        macInput \in OrNull({40, 200}), mac \in OrNull({120, 245}),
        enc \in OrNull(EncryptedBlocks), limit \in OrNull({5}),
        metaRead \in {2, 14, 15}, fileRead \in {1, 15}}
SettingsInputs ==
    {FileSettings(Null, commMode, 1, 2, 3, 4) : commMode \in {"plain", "mac", "full"}}
    \cup {FileSettings(Null, "plain", 14, 14, 14, 14)}
    \cup {FileSettings(Some(sdm), commMode, 14, 0, 14, 0) :
            sdm \in SdmInputs, commMode \in {"plain", "full"}}

\* the GetFileSettings response of a file holding `payload`, the bytes
\* serializeForChangeFileSettings made: fileType, fileOption, access rights,
\* fileSize, then the SDM part
GetFileSettingsBuffer(payload, fileSize) ==
    <<0>> \o subarray(payload, 0, 3)
          \o <<fileSize % 256, (fileSize \div 256) % 256, (fileSize \div 65536) % 256>>
          \o subarrayFrom(payload, 3)

InitSettings ==
    /\ IdleSession
    /\ \E settings \in SettingsInputs : probe = [fn |-> "", input |-> settings, output |-> Null]

Serialize ==
    Probe("serializeForChangeFileSettings",
          serializeForChangeFileSettings(probe.input, FileTagParams))
\* the tag stores what was serialized and answers GetFileSettings with it
ParseSerialized ==
    LET payload == serializeForChangeFileSettings(probe.input, FileTagParams)
    IN  /\ payload.ok
        /\ Probe("parseFromGetFileSettings",
                 parseFromGetFileSettings(
                    GetFileSettingsBuffer(payload.val, FileTagParams.fileSize)))

NextSettings == Serialize \/ ParseSerialized

SpecSettings == InitSettings /\ [][NextSettings]_vars

\* ConfigurationUpdate values given to serializeConfigurationUpdate: one of
\* each type, and the failed-authentication counter with limits and
\* decrements inside, at the ends of and outside 1..0xFFFF
CounterValues == {-1, 0, 1, 1000, 65535, 65536}
ConfigInputs ==
    {[ConfigurationUpdate("authFailCounter") EXCEPT
        !.enableFailedCounter = enabled, !.totalFailCounterLimit = limit,
        !.totalFailCounterDecrement = decrement] :
            enabled \in BOOLEAN, limit \in CounterValues, decrement \in CounterValues}
    \cup {[ConfigurationUpdate("picc") EXCEPT !.useRandomId = b] : b \in BOOLEAN}
    \cup {[ConfigurationUpdate("sdm") EXCEPT !.disableChainedWriteData = b] : b \in BOOLEAN}
    \cup {[ConfigurationUpdate("capability") EXCEPT !.enableLrp = b, !.pdCap2_5 = x] :
            b \in BOOLEAN, x \in {0, 255}}
    \cup {[ConfigurationUpdate("hardware") EXCEPT !.backModulation = m] :
            m \in {"standard", "strong"}}

InitConfig ==
    /\ IdleSession
    /\ \E config \in ConfigInputs : probe = [fn |-> "", input |-> config, output |-> Null]

SerializeConfig ==
    Probe("serializeConfigurationUpdate", serializeConfigurationUpdate(probe.input))

NextConfig == SerializeConfig

SpecConfig == InitConfig /\ [][NextConfig]_vars

\* Plaintexts given to encryptCbc with padding: lengths 0..3, 13..17 and
\* 29..32, with 0x80 and 0x00 bytes inside and at the end, under two keys and
\* two IVs
PlainTails == UNION {[1..n -> {0, 7, 128}] : n \in 0..3}
PlainHeads == {[i \in 1..n |-> IF i = 5 THEN 128 ELSE i] : n \in {0, 13, 14, 29}}
CbcInputs ==
    {[key |-> key, iv |-> iv, data |-> head \o tail] :
        key \in {KeyA, KeyB}, iv \in {createEmptyIv, RndA1},
        head \in PlainHeads, tail \in PlainTails}

InitCbc ==
    /\ IdleSession
    /\ \E input \in CbcInputs : probe = [fn |-> "", input |-> input, output |-> Null]

EncryptPadded ==
    Probe("encryptCbc", encryptCbc(probe.input.key, probe.input.data, probe.input.iv, TRUE))
\* decryptCbc applied to what encryptCbc returned for the input
DecryptEncrypted ==
    LET encrypted == encryptCbc(probe.input.key, probe.input.data, probe.input.iv, TRUE)
    IN  /\ encrypted.ok
        /\ Probe("decryptCbc",
                 decryptCbc(probe.input.key, encrypted.val, probe.input.iv, TRUE))

NextCbc == EncryptPadded \/ DecryptEncrypted

SpecCbc == InitCbc /\ [][NextCbc]_vars

\* the block primitives without padding, applied to the same keys, IVs and
\* data (of 0, 16 and 32 bytes and of lengths that are no multiple of 16)
EncryptUnpadded ==
    Probe("encryptCbc/nopad",
          encryptCbc(probe.input.key, probe.input.data, probe.input.iv, FALSE))
DecryptKeeping ==
    Probe("decryptCbc/keep",
          decryptCbc(probe.input.key, probe.input.data, probe.input.iv, FALSE))
DecryptStripping ==
    Probe("decryptCbc/strip",
          decryptCbc(probe.input.key, probe.input.data, probe.input.iv, TRUE))
EncryptEcb == Probe("encryptEcb", encryptEcb(probe.input.key, probe.input.data))

NextBlocks == EncryptUnpadded \/ DecryptKeeping \/ DecryptStripping \/ EncryptEcb

SpecBlocks == InitCbc /\ [][NextBlocks]_vars

\* PICC data as a tag encrypts it: the tag byte (bit 7: UID present, bit 6:
\* counter present, low bits: UID length), the UID, the counter, and padding
\* bytes the tag chooses
PiccData(tag, uid, counter, pad) ==
    LET fields == <<tag>> \o (IF HasBit(tag, 7) THEN uid ELSE <<>>)
                  \o (IF HasBit(tag, 6)
                      THEN <<counter % 256, (counter \div 256) % 256, counter \div 65536>>
                      ELSE <<>>)
    IN  [tag |-> tag, uid |-> uid, counter |-> counter,
         bytes |-> fields \o allocFill(blockSize - Len(fields), pad)]
OtherUid == <<4, 1, 2, 3, 4, 5, 6>>
PiccInputs ==
    {PiccData(tag, uid, counter, pad) :
        tag \in {7, 71, 135, 199}, uid \in {Uid7, OtherUid}, counter \in {0, 56}, pad \in {0, 9}}
\* the session vector and the signature of the UID and counter of PICC data:
\* 3C C3 00 01 00 80, the UID, the counter, zero bytes up to 16
SessionVectorOf(picc) ==
    LET fields == <<60, 195, 0, 1, 0, 128>> \o subarray(picc.bytes, 1, Len(picc.bytes))
        used == 6 + (IF HasBit(picc.tag, 7) THEN 7 ELSE 0) + (IF HasBit(picc.tag, 6) THEN 3 ELSE 0)
    IN  subarray(fields, 0, used) \o alloc(16 - used)
SignatureOf(macKey, picc) == reduceMac(MAC(MAC(macKey, SessionVectorOf(picc)), <<>>))

\* validateAndDecryptPicc is given the encrypted PICC data `received` with the
\* signature of the PICC data `genuine`, or that signature with a byte changed
SignaturesFor(picc) ==
    {SignatureOf(KeyB, picc), [SignatureOf(KeyB, picc) EXCEPT ![8] = (@ + 1) % 256]}
ValidationInputs ==
    UNION {{[decryptionKey |-> KeyA, macKey |-> KeyB, genuine |-> genuine,
             received |-> received,
             encryptedPicc |-> CbcEncBlocks(KeyA, received.bytes, createEmptyIv, 1),
             signatureMac |-> signatureMac] :
                received \in PiccInputs, signatureMac \in SignaturesFor(genuine)} :
           genuine \in PiccInputs}

InitValidation ==
    /\ IdleSession
    /\ \E input \in ValidationInputs : probe = [fn |-> "", input |-> input, output |-> Null]

ValidateAndDecryptPicc ==
    Probe("validateAndDecryptPicc",
          validateAndDecryptPicc(probe.input.decryptionKey, probe.input.macKey,
                                 probe.input.encryptedPicc, probe.input.signatureMac))
\* the encrypted PICC data cut to 15 bytes
ValidateTruncatedPicc ==
    Probe("validateAndDecryptPicc/truncated",
          validateAndDecryptPicc(probe.input.decryptionKey, probe.input.macKey,
                                 subarray(probe.input.encryptedPicc, 0, 15),
                                 probe.input.signatureMac))

NextValidation == ValidateAndDecryptPicc \/ ValidateTruncatedPicc

SpecValidation == InitValidation /\ [][NextValidation]_vars

\* Keys and random numbers given to calcSessionKeys, among them the ones of
\* the known answer (an all-zero key)
KnownRndA == <<185, 143, 76, 80, 207, 28, 46, 8, 79, 209, 80, 227, 57, 146, 176, 72>>
KnownRndB == <<145, 81, 121, 117, 25, 13, 206, 166, 16, 73, 72, 239, 163, 8, 92, 27>>
KnownEncKey == <<122, 147, 214, 87, 30, 75, 24, 15, 202, 106, 201, 12, 154, 116, 136, 212>>
KnownMacKey == <<252, 74, 241, 89, 182, 46, 84, 155, 88, 18, 57, 76, 171, 25, 24, 204>>
KeyInputs ==
    {[key |-> key, RndA |-> a, RndB |-> b] :
        key \in {alloc(16), KeyA, KeyB}, a \in {KnownRndA, RndA1, RndA2, KnownRndB},
        b \in {KnownRndB, RndB1, KnownRndA, RndA1, alloc(16)}}

InitKeys ==
    /\ IdleSession
    /\ \E input \in KeyInputs : probe = [fn |-> "", input |-> input, output |-> Null]

CalcSessionKeys ==
    Probe("calcSessionKeys",
          calcSessionKeys(probe.input.key, probe.input.RndA, probe.input.RndB))
CalcSessionKeysAes ==
    Probe("calcSessionKeys/aes",
          calcSessionKeysAes(probe.input.key, probe.input.RndA, probe.input.RndB))

NextKeys == CalcSessionKeys \/ CalcSessionKeysAes

SpecKeys == InitKeys /\ [][NextKeys]_vars

\* GetFileSettings responses given to parseFromGetFileSettings: the response
\* documented for an SDM file and every prefix of it, short responses with and
\* without SDM part, each under several fileType and fileOption bytes
DocSettings ==
    <<0, 64, 238, 238, 0, 1, 0, 209, 254, 0, 31, 0, 0, 68, 0, 0,
      68, 0, 0, 32, 0, 0, 106, 0, 0>>
PlainSettings == <<0, 0, 224, 238, 0, 1, 0>>
ResponseBases ==
    {subarray(DocSettings, 0, n) : n \in 2..Len(DocSettings)}
    \cup {PlainSettings \o tail : tail \in {<<>>, <<0>>, <<1, 254, 255>>, <<0, 254, 255>>,
                                            <<1, 254, 255, 0>>, <<33, 254, 255, 5, 0, 0>>}}
FileTypes == {0, 4}
FileOptions == {0, 1, 2, 3, 4, 32, 64, 65, 66, 67, 96, 128}
ParseInputs ==
    {<<>>, <<0>>, <<4>>}
    \cup {[base EXCEPT ![1] = fileType, ![2] = fileOption] :
            base \in ResponseBases, fileType \in FileTypes, fileOption \in FileOptions}

InitParse ==
    /\ IdleSession
    /\ \E buffer \in ParseInputs : probe = [fn |-> "", input |-> buffer, output |-> Null]

Parse == Probe("parseFromGetFileSettings", parseFromGetFileSettings(probe.input))

NextParse == Parse

SpecParse == InitParse /\ [][NextParse]_vars

\* ------------------------------------------------------------------------
\* Properties
\* ------------------------------------------------------------------------
\* the operations that go through the dispatcher; commMode is the mode of the
\* dispatcher send they reached ("" when their arguments were rejected first)
IsSend(call) ==
    call.op \in {"getCardUid", "writeData", "changeKey", "setConfiguration", "getFileCounters",
                 "getFileSettingsRaw", "setFileSettingsRaw", "setFileSettings", "getKeyVersion"}
IsDone(call) == call.pc = "done"
\* reader.transmit resolved with at least the two status bytes
NativeReturned(call) == ~IsNull(call.resp) /\ Len(Val(call.resp)) >= 2
RespStatus(call) == SubSeq(Val(call.resp), Len(Val(call.resp)) - 1, Len(Val(call.resp)))
RespPayload(call) == SubSeq(Val(call.resp), 1, Len(Val(call.resp)) - 2)
RespHasPayload(call) == Len(Val(call.resp)) > 2
StatusIsOk(status) == status[1] \in {144, 145} /\ status[2] \in {0, 175}

\* C1: every dispatcher send (Plain, Mac with or without a session, Full with
\* a session) whose native send returned a response has increased the
\* command counter by exactly 1 over its value when the send was issued,
\* whatever the status and even when the send then fails on the response MAC,
\* on the padding or on anything else; k such sends in a row therefore take
\* the counter from c to c + k.
C1_ReturnedSendCountsOnce ==
    \A c \in Callers :
        (IsSend(calls[c]) /\ IsDone(calls[c]) /\ NativeReturned(calls[c]))
            => commandCounter = calls[c].ctr0 + 1

\* a Full send failed on the padding after its native send returned
C1_Witness ==
    \E c \in Callers :
        /\ IsSend(calls[c]) /\ IsDone(calls[c]) /\ NativeReturned(calls[c])
        /\ calls[c].commMode = "full" /\ calls[c].error = "padding"
        /\ commandCounter = calls[c].ctr0 + 1

\* C2 (as claimed): when reader.transmit throws during an operation, the
\* command counter and the installed session are what they were before the
\* operation.
C2_TransmitFailureLeavesState ==
    \A c \in Callers :
        (IsDone(calls[c]) /\ calls[c].error = "transport")
            => (commandCounter = calls[c].ctr0 /\ authentication = calls[c].auth0)

\* ---- authenticate ------------------------------------------------------------
IsAuth(call) == call.op = "authenticate"
\* the second authentication APDU (0xAF) was sent and answered with an OK
\* status and data (authStep2 returned)
SecondApduSucceeded(call) ==
    /\ call.nframes = 2 /\ NativeReturned(call)
    /\ StatusIsOk(RespStatus(call)) /\ RespHasPayload(call)
\* the answer to the second APDU carries data that decrypts, under the
\* authentication key and a zero IV, to TI || RndA' with RndA' the host's
\* RndA rotated left by one byte
AnswerMatches(call) ==
    /\ SecondApduSucceeded(call)
    /\ (Len(RespPayload(call)) % blockSize) = 0
    /\ Len(RespPayload(call)) >= 20
    /\ LET plain == CbcDecBlocks(call.key, RespPayload(call), alloc(blockSize), 1)
       IN  SubSeq(plain, 5, 20) = SubSeq(call.rndA, 2, blockSize) \o <<call.rndA[1]>>
\* the session an accepted answer yields
SessionOf(call) ==
    LET plain == CbcDecBlocks(call.key, RespPayload(call), alloc(blockSize), 1)
        keys == calcSessionKeys(call.key, call.rndA, call.rndB)
    IN  [TI |-> SubSeq(plain, 1, 4),
         sessionEncryptionKey |-> keys.sessionEncryptionKey,
         sessionMacKey |-> keys.sessionMacKey]

\* C3: the counter reset and the session install of authenticate happen in one
\* step: every step of an authenticate call either leaves both the command
\* counter and the installed session untouched, or it is the call's
\* successful return and sets the counter to 0 and installs the new session
\* together.  No state in between exists for another operation to run in.
C3_InstallIsAtomic ==
    [][\A c \in Callers :
          (IsAuth(calls[c]) /\ ~IsDone(calls[c]) /\ calls'[c] # calls[c])
              => IF IsDone(calls'[c]) /\ calls'[c].error = ""
                 THEN commandCounter' = 0 /\ authentication' = Some(SessionOf(calls'[c]))
                 ELSE commandCounter' = commandCounter /\ authentication' = authentication]_vars

\* a re-authentication replaced an installed session while the counter was not
\* 0 and while another operation was suspended on its transmit
C3_Witness ==
    \E c \in Callers :
        /\ IsAuth(calls[c]) /\ IsDone(calls[c]) /\ calls[c].error = ""
        /\ calls[c].ctr0 > 0 /\ ~IsNull(calls[c].auth0)
        /\ commandCounter = 0 /\ authentication # calls[c].auth0
        /\ \E d \in Callers \ {c} : IsSend(calls[d]) /\ Suspended(d)

\* C4: an authenticate call that fails, at whatever step, leaves the installed
\* session (or its absence) and the command counter as they were before the
\* call.
C4_FailedAuthLeavesState ==
    \A c \in Callers :
        (IsAuth(calls[c]) /\ IsDone(calls[c]) /\ calls[c].error # "")
            => (commandCounter = calls[c].ctr0 /\ authentication = calls[c].auth0)

\* authenticate failed on the RndA comparison with a session installed and a
\* non-zero counter
C4_Witness ==
    \E c \in Callers :
        /\ IsAuth(calls[c]) /\ IsDone(calls[c]) /\ calls[c].error = "rndA"
        /\ calls[c].ctr0 > 0 /\ ~IsNull(calls[c].auth0)
        /\ commandCounter = calls[c].ctr0 /\ authentication = calls[c].auth0

\* C5 (as claimed): authenticate resets the command counter to 0 if and only
\* if the second authentication APDU succeeds.
C5_ResetIffSecondApduOk ==
    \A c \in Callers :
        (IsAuth(calls[c]) /\ IsDone(calls[c]))
            => /\ SecondApduSucceeded(calls[c]) => commandCounter = 0
               /\ ~SecondApduSucceeded(calls[c]) => commandCounter = calls[c].ctr0

\* C5 (amended): authenticate resets the command counter to 0 if and only if
\* the second authentication APDU returns an OK status with data that passes
\* the session-key derivation (RndA' matches); otherwise the counter keeps the
\* value it had.
C5_ResetIffAnswerAccepted ==
    \A c \in Callers :
        (IsAuth(calls[c]) /\ IsDone(calls[c]))
            => /\ AnswerMatches(calls[c]) => commandCounter = 0
               /\ ~AnswerMatches(calls[c]) => commandCounter = calls[c].ctr0

\* the second APDU succeeded, RndA' did not match, and the non-zero counter stayed
C5_Witness ==
    \E c \in Callers :
        /\ IsAuth(calls[c]) /\ IsDone(calls[c])
        /\ SecondApduSucceeded(calls[c]) /\ ~AnswerMatches(calls[c])
        /\ calls[c].ctr0 > 0 /\ commandCounter = calls[c].ctr0

\* C6: only a fully successful authenticate changes the installed session:
\* every step that changes `authentication` is the return of an authenticate
\* call whose second answer was accepted, and once a session is installed
\* isAuthenticated() stays true.
C6_OnlyAuthenticateChangesSession ==
    [][/\ (authentication' # authentication)
              => \E c \in Callers :
                    /\ IsAuth(calls[c]) /\ calls[c].pc = "auth2"
                    /\ IsDone(calls'[c]) /\ calls'[c].error = ""
                    /\ AnswerMatches(calls'[c])
       /\ (~IsNull(authentication)) => (~IsNull(authentication'))]_vars

\* a Mac send failed on the response MAC and the session is still the one
\* that was installed before it
C6_Witness ==
    \E c \in Callers :
        /\ IsSend(calls[c]) /\ IsDone(calls[c]) /\ calls[c].error = "mac"
        /\ ~IsNull(authentication) /\ authentication = calls[c].auth0

\* C7 (as claimed): every newly created session starts unauthenticated with
\* counter 0, and isAuthenticated() is false until the first successful
\* authenticate.
Fresh == \A c \in Callers : calls[c].pc = "idle"
C7_StartsUnauthenticatedAtZero ==
    /\ Fresh => commandCounter = 0
    /\ ~authCompleted => ~isAuthenticated

\* C7 (amended): a session created without options.initialCommandCounter
\* starts with counter 0, and one created without options.authentication is
\* unauthenticated until the first successful authenticate has completed.
C7_DefaultsStartUnauthenticatedAtZero ==
    /\ (Fresh /\ IsNull(options.initialCommandCounter)) => commandCounter = 0
    /\ (~authCompleted /\ IsNull(options.authentication)) => ~isAuthenticated

\* on a session created without options an authenticate has failed and the
\* session is still unauthenticated
C7_Witness ==
    \E c \in Callers :
        /\ IsNull(options.authentication) /\ IsNull(options.initialCommandCounter)
        /\ IsAuth(calls[c]) /\ IsDone(calls[c]) /\ calls[c].error = "status"
        /\ ~authCompleted /\ ~isAuthenticated

\* ---- Mac mode with a session installed -------------------------------------
\* a Mac-mode send issued with a session installed whose transmit returned
MacSessionSend(call) ==
    /\ IsSend(call) /\ IsDone(call) /\ call.commMode = "mac"
    /\ ~IsNull(call.auth0) /\ NativeReturned(call)
\* the last 8 bytes of the payload and what precedes them
TrailingMac(call) ==
    SubSeq(RespPayload(call), Len(RespPayload(call)) - 7, Len(RespPayload(call)))
PayloadBody(call) == SubSeq(RespPayload(call), 1, Len(RespPayload(call)) - 8)
\* reduce_mac(CMAC(ses_mac_key, [SW2, counter LE, TI, body])) at the counter
\* the send left behind
ExpectedMac(call, body) ==
    LET auth == Val(call.auth0)
        ctr == call.ctr0 + 1
        full == MAC(auth.sessionMacKey,
                    <<RespStatus(call)[2], ctr % 256, (ctr \div 256) % 256>> \o auth.TI \o body)
    IN  <<full[2], full[4], full[6], full[8], full[10], full[12], full[14], full[16]>>
MacIsValid(call) ==
    /\ Len(RespPayload(call)) >= 8
    /\ TrailingMac(call) = ExpectedMac(call, PayloadBody(call))
\* the dispatcher handed a payload body to the operation
PayloadReturned(call) == ~IsNull(call.sendResult) /\ ~IsNull(Val(call.sendResult).data)

\* C8 (as claimed): in Mac mode with a session installed and an OK response
\* with a payload, the body is returned only if the trailing 8 bytes are the
\* expected response MAC, and a response MAC that differs makes the send fail
\* with a response-MAC-mismatch error, no payload returned.
C8_PayloadOnlyWithValidMac ==
    \A c \in Callers :
        (MacSessionSend(calls[c]) /\ StatusIsOk(RespStatus(calls[c])) /\ RespHasPayload(calls[c]))
            => /\ PayloadReturned(calls[c])
                    => /\ MacIsValid(calls[c])
                       /\ Val(Val(calls[c].sendResult).data) = PayloadBody(calls[c])
               /\ ~MacIsValid(calls[c])
                    => (calls[c].error = "mac" /\ ~PayloadReturned(calls[c]))

\* C9: in Mac mode with a session installed, a response with an error status
\* is not MAC-verified: the send raises no MAC mismatch and hands the response
\* to the operation as received, same status and same payload.
C9_ErrorStatusSkipsVerification ==
    \A c \in Callers :
        (MacSessionSend(calls[c]) /\ ~StatusIsOk(RespStatus(calls[c])))
            => /\ calls[c].error # "mac"
               /\ ~IsNull(calls[c].sendResult)
               /\ Val(calls[c].sendResult).status = RespStatus(calls[c])
               /\ Val(calls[c].sendResult).data
                      = (IF RespHasPayload(calls[c]) THEN Some(RespPayload(calls[c])) ELSE Null)

\* an error status came with a payload whose last 8 bytes are no valid MAC
C9_Witness ==
    \E c \in Callers :
        /\ MacSessionSend(calls[c]) /\ ~StatusIsOk(RespStatus(calls[c]))
        /\ RespHasPayload(calls[c]) /\ ~MacIsValid(calls[c])
        /\ PayloadReturned(calls[c])

\* ---- Full mode without a session ---------------------------------------------
\* C10: a Full-mode send on a session with no installed authentication fails
\* with the not-authenticated error before any frame is transmitted and leaves
\* the command counter unchanged.
C10_FullNeedsSession ==
    \A c \in Callers :
        (IsSend(calls[c]) /\ calls[c].commMode = "full" /\ IsNull(calls[c].auth0))
            => /\ IsDone(calls[c]) /\ calls[c].error = "notauth"
               /\ calls[c].nframes = 0 /\ IsNull(calls[c].resp)
               /\ commandCounter = calls[c].ctr0

\* setConfiguration was refused on an unauthenticated session whose counter is
\* not 0
C10_Witness ==
    \E c \in Callers :
        /\ calls[c].op = "setConfiguration" /\ calls[c].commMode = "full"
        /\ IsNull(calls[c].auth0) /\ calls[c].error = "notauth"
        /\ calls[c].ctr0 > 0 /\ calls[c].nframes = 0 /\ commandCounter = calls[c].ctr0

\* ---- Mac mode without a session ----------------------------------------------
\* a Mac-mode send issued on a session with no installed authentication
MacNoSessionSend(call) == IsSend(call) /\ call.commMode = "mac" /\ IsNull(call.auth0)
\* the frame a Plain send of the call's command, header and data transmits:
\* 90 cmd 00 00 Lc header data 00, nothing after the data
PlainFrame(call) ==
    LET body == call.header \o (IF IsNull(call.data) THEN <<>> ELSE Val(call.data))
    IN  <<144, call.command, 0, 0, Len(body)>> \o body \o <<0>>
\* the response as received: its last two bytes as status, the rest as data
ReceivedResponse(call) ==
    [status |-> RespStatus(call),
     data |-> IF RespHasPayload(call) THEN Some(RespPayload(call)) ELSE Null]

\* C11: a Mac-mode send on a session with no installed authentication behaves
\* like a Plain send: the frame it transmits is the Plain frame (no MAC after
\* the data), the command counter is incremented exactly once (before the
\* transmit, as in a Plain send), and the response reaches the operation as
\* received, never rejected for its MAC.
C11_MacWithoutSessionIsPlain ==
    \A c \in Callers :
        MacNoSessionSend(calls[c])
            => /\ calls[c].nframes = 1
               /\ calls[c].frame = PlainFrame(calls[c])
               /\ commandCounter = calls[c].ctr0 + 1
               /\ calls[c].error # "mac"
               /\ (IsDone(calls[c]) /\ NativeReturned(calls[c]))
                      => calls[c].sendResult = Some(ReceivedResponse(calls[c]))

\* getCardUid in Mac mode without a session returned a payload that carries no MAC
C11_Witness ==
    \E c \in Callers :
        /\ MacNoSessionSend(calls[c]) /\ IsDone(calls[c]) /\ calls[c].op = "getCardUid"
        /\ calls[c].resp = Some(Uid7 \o StatusOk)
        /\ calls[c].value = Some(Uid7)
        /\ calls[c].frame = <<144, 81, 0, 0, 0, 0>>
        /\ commandCounter = calls[c].ctr0 + 1

\* ---- Full mode with null or empty data ---------------------------------------
\* a Full-mode send issued with a session installed
FullSessionSend(call) == IsSend(call) /\ call.commMode = "full" /\ ~IsNull(call.auth0)
NoRequestData(call) == IsNull(call.data) \/ Len(Val(call.data)) = 0
\* the request MAC: reduce_mac(CMAC(ses_mac_key, cmd || counter LE || TI || body))
\* at the counter the send was issued with
RequestMac(call, body) ==
    LET auth == Val(call.auth0)
        full == MAC(auth.sessionMacKey,
                    <<call.command, call.ctr0 % 256, (call.ctr0 \div 256) % 256>> \o auth.TI \o body)
    IN  <<full[2], full[4], full[6], full[8], full[10], full[12], full[14], full[16]>>
\* the frame a Mac-mode send of the command, header and `data` transmits:
\* 90 cmd 00 00 Lc header data mac8 00
MacFrame(call, data) ==
    LET body == call.header \o data
    IN  <<144, call.command, 0, 0, Len(body) + 8>> \o body \o RequestMac(call, body) \o <<0>>

\* C12: with a session installed, a Full-mode send whose data is null or empty
\* puts on the wire the frame of the Mac-mode send of the same command and
\* header at the same counter (header, then the 8-byte request MAC, no
\* ciphertext and no padding block), and leaves the counter as a Mac send
\* does; past the last 16-bit counter value it fails before any frame, as
\* the Mac send does.
C12_FullWithoutDataIsMacFrame ==
    \A c \in Callers :
        (FullSessionSend(calls[c]) /\ NoRequestData(calls[c]))
            => IF calls[c].ctr0 < U16Limit
               THEN /\ calls[c].nframes = 1
                    /\ calls[c].frame = MacFrame(calls[c], <<>>)
                    /\ Len(calls[c].frame) = 5 + Len(calls[c].header) + 8 + 1
                    /\ calls[c].error = "transport" => commandCounter = calls[c].ctr0
                    /\ (IsDone(calls[c]) /\ NativeReturned(calls[c]))
                           => commandCounter = calls[c].ctr0 + 1
               ELSE calls[c].nframes = 0 /\ calls[c].error = "range"

\* writeData in Full mode with empty data transmitted header and MAC only
C12_Witness ==
    \E c \in Callers :
        /\ FullSessionSend(calls[c]) /\ calls[c].op = "writeData"
        /\ calls[c].data = Some(<<>>)
        /\ calls[c].nframes = 1 /\ Len(calls[c].frame) = 21
        /\ calls[c].frame = MacFrame(calls[c], <<>>)

\* ---- Full mode: the result of the Mac path -----------------------------------
\* sendEncrypted got a result from sendWithMac and has returned or thrown
FullResultHandled(call) == FullSessionSend(call) /\ IsDone(call) /\ ~IsNull(call.macResult)
\* that result has an error status, or no payload (none at all, or 0 bytes
\* once the response MAC is taken off)
MacResultIsError(call) == ~StatusIsOk(Val(call.macResult).status)
MacResultNoPayload(call) ==
    IsNull(Val(call.macResult).data) \/ Len(Val(Val(call.macResult).data)) = 0
\* the errors only decryptData raises
DecryptErrors == {"padding", "blocksize"}
\* the plaintext of a ciphertext under the session of the call, at the counter
\* the send left behind
PlainOf(call, ciphertext) ==
    LET auth == Val(call.auth0)
        ctr == call.ctr0 + 1
        iv == EcbBlocks(auth.sessionEncryptionKey,
                        <<90, 165>> \o auth.TI \o <<ctr % 256, (ctr \div 256) % 256>> \o alloc(8), 1)
    IN  CbcDecBlocks(auth.sessionEncryptionKey, ciphertext, iv, 1)

\* C13 (as claimed): in Full mode, when the result of the Mac path has an
\* error status or no payload, the response returned is that result unchanged,
\* same status and same data.
C13_ResultReturnedUnchanged ==
    \A c \in Callers :
        (FullResultHandled(calls[c]) /\ (MacResultIsError(calls[c]) \/ MacResultNoPayload(calls[c])))
            => calls[c].sendResult = calls[c].macResult

\* C13 (amended): in Full mode, when the result of the Mac path has an error
\* status or no payload, the response returned has the status of that result
\* and null data (the payload of an error response and an empty payload are
\* dropped) and nothing is decrypted; for an OK status with a non-empty
\* payload the payload is decrypted, and the send either fails in the
\* decryption or returns the plaintext up to the padding marker.
C13_ResultStatusWithNullData ==
    \A c \in Callers :
        FullResultHandled(calls[c])
            => IF MacResultIsError(calls[c]) \/ MacResultNoPayload(calls[c])
               THEN /\ calls[c].sendResult
                          = Some([status |-> Val(calls[c].macResult).status, data |-> Null])
                    /\ calls[c].error \notin DecryptErrors
               ELSE \/ IsNull(calls[c].sendResult) /\ calls[c].error \in DecryptErrors
                    \/ /\ ~IsNull(calls[c].sendResult)
                       /\ Val(calls[c].sendResult).status = Val(calls[c].macResult).status
                       /\ ~IsNull(Val(calls[c].sendResult).data)
                       /\ LET plain == PlainOf(calls[c], Val(Val(calls[c].macResult).data))
                              out == Val(Val(calls[c].sendResult).data)
                          IN  /\ Len(out) < Len(plain)
                              /\ out = SubSeq(plain, 1, Len(out))
                              /\ plain[Len(out) + 1] = 128

\* an error response carried a payload, and the operation received null data
C13_Witness ==
    \E c \in Callers :
        /\ FullResultHandled(calls[c]) /\ MacResultIsError(calls[c])
        /\ ~IsNull(Val(calls[c].macResult).data)
        /\ Len(Val(Val(calls[c].macResult).data)) > 0
        /\ calls[c].sendResult = Some([status |-> Val(calls[c].macResult).status, data |-> Null])

\* ---- the width of the command counter ------------------------------------------
\* C14 (as claimed): the command counter is a 16-bit value that wraps modulo
\* 2^16: it always lies in 0..0xFFFF, and a send issued at counter 0xFFFF
\* whose response came back leaves it at 0.
C14_CounterWrapsAt16Bits ==
    /\ commandCounter \in 0..(U16Limit - 1)
    /\ \A c \in Callers :
          (IsSend(calls[c]) /\ IsDone(calls[c]) /\ NativeReturned(calls[c])
             /\ calls[c].ctr0 = U16Limit - 1)
              => commandCounter = 0

\* ---- retry after a transport failure -----------------------------------------
\* the call repeats the request of the caller's previous send, which failed
\* because reader.transmit threw
RetriedSend(call) == IsSend(call) /\ ~IsNull(call.failedFrame)

\* C15: after a send in any mode failed because reader.transmit threw,
\* re-issuing the same command, header and data transmits a frame that is
\* byte-identical to the failed one; with a session installed the retry runs
\* at the counter of the failed send, so the MAC and the ciphertext repeat.
C15_RetryRepeatsFrame ==
    \A c \in Callers :
        RetriedSend(calls[c])
            => /\ calls[c].nframes = 1
               /\ calls[c].frame = Val(calls[c].failedFrame)
               /\ (~IsNull(calls[c].auth0) /\ calls[c].commMode \in {"mac", "full"})
                      => calls[c].frame
                            = MacFrame(calls[c], SubSeq(calls[c].frame, 6 + Len(calls[c].header),
                                                        Len(calls[c].frame) - 9))

\* a Full-mode writeData with data was retried with a session installed and
\* sent the same ciphertext and MAC again
C15_Witness ==
    \E c \in Callers :
        /\ RetriedSend(calls[c]) /\ calls[c].op = "writeData" /\ calls[c].commMode = "full"
        /\ ~IsNull(calls[c].auth0) /\ calls[c].data = Some(<<72, 105, 128>>)
        /\ Len(calls[c].frame) = 5 + 7 + blockSize + 8 + 1
        /\ calls[c].frame = Val(calls[c].failedFrame)

\* ---- authenticate and other operations in flight ------------------------------
\* the step-1 frame (0x71) of the call is on the wire or answered and its
\* step-2 frame (0xAF) has not been transmitted yet
BetweenAuthFrames(call) == IsAuth(call) /\ call.pc \in {"auth1", "import"}

\* C16 (as claimed): while an authenticate call is between its step-1 frame
\* and its step-2 frame, no step transmits a frame of another operation,
\* also when that operation is invoked while the authentication is in flight.
C16_NoFrameBetweenAuthSteps ==
    [][\A c \in Callers :
          BetweenAuthFrames(calls[c])
              => \A d \in Callers \ {c} : calls'[d].nframes = calls[d].nframes]_vars

\* ---- the status bytes authenticate accepts ------------------------------------
\* the call has gone on from step 1: authStep1 returned, authStep2 is running
\* or has sent its frame, and `resp` is still the answer to the 0x71 frame
PastStep1(call) == IsAuth(call) /\ call.pc \in {"import", "auth2"}
\* the call installed a session; `resp` is the answer to the 0xAF frame
Installed(call) == IsAuth(call) /\ IsDone(call) /\ call.error = ""

\* C17 (as claimed): authenticate goes from step 1 to step 2 only when the
\* step-1 response has SW2 = 0xAF, and installs a session only when the
\* step-2 response has SW2 = 0x00.
C17_StepStatusesAreExact ==
    \A c \in Callers :
        /\ PastStep1(calls[c]) => RespStatus(calls[c])[2] = 175
        /\ Installed(calls[c]) => RespStatus(calls[c])[2] = 0

\* ---- ResponseStatus ------------------------------------------------------------
\* C18: a ResponseStatus can be constructed from a buffer exactly when the
\* buffer has 2 bytes; for every 2-byte status isOk() is true if and only if
\* SW1 is 0x90 or 0x91 and SW2 is 0x00 or 0xAF, and isError() is its negation.
C18_IsOkIffKnownStatus ==
    LET sw == probe.input
        good == sw[1] \in {144, 145} /\ sw[2] \in {0, 175}
    IN  /\ probe.fn = "ResponseStatus" => (Val(probe.output).ok <=> Len(sw) = 2)
        /\ probe.fn \in {"isOk", "isError"} => Len(sw) = 2
        /\ probe.fn = "isOk" => (Val(probe.output) <=> good)
        /\ probe.fn = "isError" => (Val(probe.output) <=> ~good)

\* isOk() was called on 90 AF and returned true
C18_Witness ==
    /\ probe.fn = "isOk" /\ probe.input = <<144, 175>> /\ probe.output = Some(TRUE)

\* ---- ChangeFileSettings ----------------------------------------------------------
IsSetFileSettings(call) == call.op \in {"setFileSettings", "setFileSettingsRaw"}
\* the request data encrypted as Full mode does: padded with 0x80 and zeros to
\* whole blocks, AES-CBC under the session encryption key, IV from the counter
\* the call was issued at
CipherOf(call) ==
    LET auth == Val(call.auth0)
        plain == Val(call.data)
        iv == EcbBlocks(auth.sessionEncryptionKey,
                        <<165, 90>> \o auth.TI
                        \o <<call.ctr0 % 256, (call.ctr0 \div 256) % 256>> \o alloc(8), 1)
        fill == (blockSize - ((Len(plain) + 1) % blockSize)) % blockSize
    IN  CbcEncBlocks(auth.sessionEncryptionKey, plain \o <<128>> \o alloc(fill), iv, 1)

\* C19: setFileSettings and setFileSettingsRaw send ChangeFileSettings (0x5F)
\* in Full mode (data encrypted, request MAC appended) when a session is
\* installed at the time of the call and in Plain mode (data in clear, no MAC)
\* otherwise, never in Mac mode; when the response carries an error status the
\* operation fails.
C19_SetFileSettingsFullOrPlain ==
    \A c \in Callers :
        (IsSetFileSettings(calls[c]) /\ calls[c].nframes > 0)
            => /\ calls[c].nframes = 1 /\ calls[c].command = 95
               /\ calls[c].commMode = (IF IsNull(calls[c].auth0) THEN "plain" ELSE "full")
               /\ calls[c].frame = (IF IsNull(calls[c].auth0) THEN PlainFrame(calls[c])
                                    ELSE MacFrame(calls[c], CipherOf(calls[c])))
               /\ (IsDone(calls[c]) /\ NativeReturned(calls[c])
                     /\ ~StatusIsOk(RespStatus(calls[c])))
                      => calls[c].error = "status"

\* setFileSettings with a session installed sent the encrypted settings and
\* failed on the error status of the card
C19_Witness ==
    \E c \in Callers :
        /\ calls[c].op = "setFileSettings" /\ ~IsNull(calls[c].auth0)
        /\ calls[c].commMode = "full" /\ calls[c].data = Some(<<0, 52, 18>>)
        /\ Len(calls[c].frame) = 5 + 1 + blockSize + 8 + 1
        /\ IsDone(calls[c]) /\ calls[c].error = "status"
        /\ NativeReturned(calls[c]) /\ RespStatus(calls[c]) = StatusErr

\* ---- rejected input ---------------------------------------------------------------
\* the errors of the argument checks and of the two codecs
RejectionErrors == {"argument", "config", "never", "settings", "bounds"}
\* the operation threw on its input: an argument check, or the file-settings or
\* configuration codec (whose range errors come before a mode is chosen)
InputRejected(call) ==
    /\ IsDone(call)
    /\ call.op \in {"setFileSettings", "setConfiguration", "getFileSettingsRaw",
                    "setFileSettingsRaw", "getKeyVersion", "getFileCounters", "selectFile",
                    "writeStandardFile", "changeKey"}
    /\ \/ call.error \in RejectionErrors
       \/ call.error = "range" /\ call.commMode = "" /\ IsSend(call)

\* C20: when an operation rejects its input (codec validation in
\* setFileSettings / setConfiguration, or an argument check in
\* getFileSettingsRaw, setFileSettingsRaw, getKeyVersion, getFileCounters,
\* selectFile, writeStandardFile or changeKey), no frame has been transmitted,
\* and the command counter and the installed session are unchanged.
C20_RejectionBeforeAnyFrame ==
    \A c \in Callers :
        InputRejected(calls[c])
            => /\ calls[c].nframes = 0 /\ calls[c].frame = <<>> /\ IsNull(calls[c].resp)
               /\ commandCounter = calls[c].ctr0
               /\ authentication = calls[c].auth0

\* writeStandardFile refused 256 bytes on a session with an installed
\* authentication and a counter that is not 0
C20_Witness ==
    \E c \in Callers :
        /\ InputRejected(calls[c]) /\ calls[c].op = "writeStandardFile"
        /\ calls[c].error = "argument" /\ calls[c].nframes = 0
        /\ calls[c].ctr0 > 0 /\ ~IsNull(calls[c].auth0)
        /\ commandCounter = calls[c].ctr0 /\ authentication = calls[c].auth0

\* ---- the response length passed to the reader -------------------------------------
\* C21 (as claimed): every call of reader.transmit, for every public
\* operation, passes the maximum response length 0x80.
C21_TransmitPasses0x80 ==
    \A c \in Callers : calls[c].nframes > 0 => calls[c].maxLen = 128


\* ---- the file-settings codec --------------------------------------------------------
\* the probe applied `fn` and holds what it returned or threw
Applied(fn) == probe.fn = fn /\ ~IsNull(probe.output)
Outcome == Val(probe.output)

\* C22 (as claimed): for every FileSettings the serializer accepts, parsing
\* the GetFileSettings buffer built from the serialized bytes succeeds and
\* returns comm_mode, access rights and sdm_options equal to the input.
C22_ParserMirrorsSerializer ==
    (Applied("parseFromGetFileSettings") /\ probe.input \in SettingsInputs)
        => /\ Outcome.ok
           /\ Outcome.val.commMode = probe.input.commMode
           /\ Outcome.val.accessRights = probe.input.access
           /\ Outcome.val.sdmOptions = probe.input.sdmOptions

\* the bits of fileOption that are reserved: all but SDM (6) and CommMode (1, 0)
RfuBits == {2, 3, 4, 5, 7}

\* C23 (as claimed): a buffer whose fileOption has CommMode bits 0b10 is
\* rejected, and every parsed result has comm_mode plain, mac or full.
C23_CommMode10Rejected ==
    (Applied("parseFromGetFileSettings") /\ probe.input \in ParseInputs)
        => /\ (Len(probe.input) >= 2 /\ (probe.input[2] % 4) = 2) => ~Outcome.ok
           /\ Outcome.ok => Outcome.val.commMode \in {"plain", "mac", "full"}

\* C24 (as claimed): the parser fails whenever an RFU bit of the fileOption
\* byte is set.
C24_RfuBitsRejected ==
    (Applied("parseFromGetFileSettings") /\ probe.input \in ParseInputs)
        => ((Len(probe.input) >= 2 /\ \E n \in RfuBits : HasBit(probe.input[2], n))
                => ~Outcome.ok)

\* the bytes of a GetFileSettings response that hold the parsed `settings`
ConsumedLength(settings) ==
    LET sdm == Val(settings.sdmOptions)
        Width(field) == IF IsNull(field) THEN 0 ELSE 3
    IN  IF IsNull(settings.sdmOptions) THEN 7
        ELSE 10 + Width(sdm.uidOffset) + Width(sdm.readCounterOffset)
                + Width(sdm.piccDataOffset) + Width(sdm.macInputOffset)
                + Width(sdm.macOffset) + Width(sdm.readCounterLimit)
                + (IF IsNull(sdm.encryptedFileData) THEN 0 ELSE 6)
\* a proper prefix of the buffer is a response the parser accepts
HasLeftover(buffer) ==
    \E n \in 0..(Len(buffer) - 1) : parseFromGetFileSettings(subarray(buffer, 0, n)).ok

\* C25: the parser returns a result only for a buffer whose file type byte is 0
\* and whose length is exactly that of the fields of the result; a buffer with
\* bytes left over after an accepted response is rejected.
C25_WholeBufferAndFileType0 ==
    (Applied("parseFromGetFileSettings") /\ probe.input \in ParseInputs)
        => /\ Outcome.ok => /\ probe.input[1] = 0
                            /\ Outcome.val.fileType = 0
                            /\ Len(probe.input) = ConsumedLength(Outcome.val)
           /\ HasLeftover(probe.input) => ~Outcome.ok
           /\ (Len(probe.input) >= 1 /\ probe.input[1] # 0) => ~Outcome.ok

\* a response without SDM part followed by one more byte was rejected for its
\* leftover byte
C25_Witness ==
    /\ Applied("parseFromGetFileSettings")
    /\ probe.input = PlainSettings \o <<0>>
    /\ HasLeftover(probe.input)
    /\ ~Outcome.ok /\ Outcome.err = "trailing"


\* the SdmOptions given to the serializer, when the settings have them
InputSdm == Val(probe.input.sdmOptions)
SerializedSdm ==
    /\ Applied("serializeForChangeFileSettings")
    /\ probe.input \in SettingsInputs
    /\ ~IsNull(probe.input.sdmOptions)
\* meta_read is the number of a key
MetaReadIsKey(sdm) == sdm.accessRights.metaRead \in 0..4

\* C26: with SDM options the serializer returns no payload and throws a
\* validation error when picc_data_offset is set while meta_read = 0xF, when
\* it is unset while meta_read is a key number, and when mac_input_offset or
\* mac_offset is unset while file_read != 0xF.
C26_CrossFieldValidation ==
    SerializedSdm
        => /\ (InputSdm.accessRights.metaRead = 15 /\ ~IsNull(InputSdm.piccDataOffset))
                => (~Outcome.ok /\ Outcome.err = "settings")
           /\ (MetaReadIsKey(InputSdm) /\ IsNull(InputSdm.piccDataOffset))
                => (~Outcome.ok /\ Outcome.err = "settings")
           /\ (InputSdm.accessRights.fileRead # 15
               /\ (IsNull(InputSdm.macInputOffset) \/ IsNull(InputSdm.macOffset)))
                => (~Outcome.ok /\ Outcome.err \in {"settings", "bounds"})

\* the serializer refused SDM options with meta_read a key and no
\* picc_data_offset, everything else being in order
C26_Witness ==
    /\ SerializedSdm
    /\ InputSdm.accessRights.metaRead = 2 /\ IsNull(InputSdm.piccDataOffset)
    /\ InputSdm.accessRights.fileRead = 1
    /\ InputSdm.macInputOffset = Some(40) /\ InputSdm.macOffset = Some(120)
    /\ IsNull(InputSdm.encryptedFileData)
    /\ ~Outcome.ok /\ Outcome.err = "settings"

\* lower <= value < upper for a field that is set
Within(lower, field, upper) == lower <= Val(field) /\ Val(field) < upper
UidInRange(sdm, tp) ==
    IsNull(sdm.uidOffset) \/ Within(0, sdm.uidOffset, tp.fileSize - tp.encodedUidLength)
ReadCounterInRange(sdm, tp) ==
    IsNull(sdm.readCounterOffset)
    \/ Within(0, sdm.readCounterOffset, tp.fileSize - tp.encodedReadCounterLength)
PiccDataInRange(sdm, tp) ==
    IsNull(sdm.piccDataOffset) \/ Within(0, sdm.piccDataOffset, tp.fileSize - tp.piccDataLength)
\* the constraints on mac_input_offset, the encrypted block and mac_offset
MacInRange(sdm, tp) ==
    LET macInput == Val(sdm.macInputOffset)
        mac == Val(sdm.macOffset)
        enc == Val(sdm.encryptedFileData)
    IN  /\ 0 <= macInput /\ macInput <= mac
        /\ IF IsNull(sdm.encryptedFileData)
           THEN macInput <= mac /\ mac < tp.fileSize - 16
           ELSE /\ macInput <= enc.offset /\ enc.offset < mac - 32
                /\ 32 <= enc.length /\ enc.length < mac - enc.offset
                /\ (enc.length % 32) = 0
                /\ enc.offset + enc.length < mac /\ mac < tp.fileSize - 16

\* C27 (as claimed): a payload is returned only if every range constraint
\* holds for the offsets that are set.
C27_PayloadOnlyInRange ==
    (SerializedSdm /\ Outcome.ok)
        => /\ UidInRange(InputSdm, FileTagParams)
           /\ ReadCounterInRange(InputSdm, FileTagParams)
           /\ PiccDataInRange(InputSdm, FileTagParams)
           /\ (~IsNull(InputSdm.macInputOffset) /\ ~IsNull(InputSdm.macOffset))
                => MacInRange(InputSdm, FileTagParams)

\* C27 (amended): a payload is returned only if the range constraints hold
\* for the offsets the payload carries: uid_offset and read_counter_offset
\* when meta_read = 0xE, picc_data_offset when meta_read is a key, and
\* mac_input_offset, the encrypted block and mac_offset when file_read != 0xF;
\* a violation of one of these throws a range or validation error.
C27_PayloadOnlyIfWrittenInRange ==
    SerializedSdm
        => LET written ==
                /\ InputSdm.accessRights.metaRead = 14
                      => (UidInRange(InputSdm, FileTagParams)
                          /\ ReadCounterInRange(InputSdm, FileTagParams))
                /\ MetaReadIsKey(InputSdm) => PiccDataInRange(InputSdm, FileTagParams)
                /\ (InputSdm.accessRights.fileRead # 15
                    /\ ~IsNull(InputSdm.macInputOffset) /\ ~IsNull(InputSdm.macOffset))
                      => MacInRange(InputSdm, FileTagParams)
           IN  /\ Outcome.ok => written
               /\ ~written => (~Outcome.ok /\ Outcome.err \in {"bounds", "settings"})

\* the serializer accepted SDM options whose uid, read counter, MAC input,
\* encrypted block and MAC offsets are all written and in range
C27_Witness ==
    /\ SerializedSdm /\ Outcome.ok
    /\ InputSdm.accessRights.metaRead = 14 /\ InputSdm.accessRights.fileRead = 1
    /\ InputSdm.uidOffset = Some(10) /\ InputSdm.readCounterOffset = Some(30)
    /\ InputSdm.macInputOffset = Some(40) /\ InputSdm.macOffset = Some(120)
    /\ InputSdm.encryptedFileData = Some([offset |-> 48, length |-> 32])
    /\ MacInRange(InputSdm, FileTagParams)

\* a field of the tail: nothing when unset, else three bytes, least significant first
TailField(field) ==
    IF IsNull(field) THEN <<>>
    ELSE <<Val(field) % 256, (Val(field) \div 256) % 256, Val(field) \div 65536>>
\* the payload as the layout describes it
LayoutOf(settings) ==
    LET sdm == Val(settings.sdmOptions)
        ar == sdm.accessRights
        access == settings.access
        flags == (IF IsNull(sdm.uidOffset) THEN 0 ELSE 128)
                 + (IF IsNull(sdm.readCounterOffset) THEN 0 ELSE 64)
                 + (IF IsNull(sdm.readCounterLimit) THEN 0 ELSE 32)
                 + (IF IsNull(sdm.encryptedFileData) THEN 0 ELSE 16) + 1
        enc == IF IsNull(sdm.encryptedFileData) THEN <<>>
               ELSE TailField(Some(Val(sdm.encryptedFileData).offset))
                    \o TailField(Some(Val(sdm.encryptedFileData).length))
    IN  <<(IF IsNull(settings.sdmOptions) THEN 0 ELSE 64) + commModeBits(settings.commMode),
          16 * access.readWrite + access.change,
          16 * access.read + access.write>>
        \o (IF IsNull(settings.sdmOptions) THEN <<>>
            ELSE <<flags, 240 + ar.counterRetrieval, 16 * ar.metaRead + ar.fileRead>>
                 \o (IF ar.metaRead = 14
                     THEN TailField(sdm.uidOffset) \o TailField(sdm.readCounterOffset)
                     ELSE IF ar.metaRead \in 0..4 THEN TailField(sdm.piccDataOffset)
                     ELSE <<>>)
                 \o (IF ar.fileRead # 15
                     THEN TailField(sdm.macInputOffset) \o enc \o TailField(sdm.macOffset)
                     ELSE <<>>)
                 \o TailField(sdm.readCounterLimit))

\* C28: for every accepted FileSettings the payload is fileOption, the two
\* access bytes and, with SDM, the flag byte, 0xF0 | counter_retrieval,
\* (meta_read << 4) | file_read and the tail fields as 3-byte little-endian
\* values in the order of the layout.
C28_PayloadLayout ==
    (Applied("serializeForChangeFileSettings") /\ probe.input \in SettingsInputs /\ Outcome.ok)
        => Outcome.val = LayoutOf(probe.input)

\* the payload of settings with every tail field of meta_read = 0xE and
\* file_read = 1, and a read counter limit
C28_Witness ==
    /\ Applied("serializeForChangeFileSettings") /\ Outcome.ok
    /\ probe.input.commMode = "full"
    /\ Outcome.val = <<67, 224, 224, 241, 254, 225, 10, 0, 0, 30, 0, 0, 40, 0, 0,
                       48, 0, 0, 32, 0, 0, 120, 0, 0, 5, 0, 0>>


\* ---- the configuration codec --------------------------------------------------------
\* 1 <= x <= 0xFFFF
InCounterRange(x) == 1 <= x /\ x <= 65535

\* C29 (as claimed): for an enabled failed-authentication counter the
\* serializer accepts every limit and decrement in 1..0xFFFF and returns
\* header 0x0A with [0x01, limit lo, limit hi, decrement lo, decrement hi],
\* and rejects values outside the range; for a disabled counter it returns
\* header 0x0A with five zero bytes.
C29_AuthFailCounterSerialized ==
    (Applied("serializeConfigurationUpdate") /\ probe.input \in ConfigInputs
     /\ probe.input.type = "authFailCounter")
        => LET limit == probe.input.totalFailCounterLimit
               decrement == probe.input.totalFailCounterDecrement
           IN  IF ~probe.input.enableFailedCounter
               THEN Outcome.ok /\ Outcome.val = [header |-> 10, data |-> <<0, 0, 0, 0, 0>>]
               ELSE IF InCounterRange(limit) /\ InCounterRange(decrement)
               THEN /\ Outcome.ok
                    /\ Outcome.val =
                         [header |-> 10,
                          data |-> <<1, limit % 256, limit \div 256,
                                     decrement % 256, decrement \div 256>>]
               ELSE ~Outcome.ok


\* ---- CBC with manual padding --------------------------------------------------------
\* C30: decryptCbc with padding removal, applied to what encryptCbc with
\* padding returned under the same key and IV, yields the plaintext, and the
\* ciphertext length is the smallest multiple of 16 strictly greater than the
\* length of the plaintext.
C30_CbcPaddingRoundTrip ==
    /\ (Applied("decryptCbc") /\ probe.input \in CbcInputs)
          => (Outcome.ok /\ Outcome.val = probe.input.data)
    /\ (Applied("encryptCbc") /\ probe.input \in CbcInputs)
          => /\ Outcome.ok
             /\ (Len(Outcome.val) % blockSize) = 0
             /\ Len(Outcome.val) > Len(probe.input.data)
             /\ Len(Outcome.val) - blockSize <= Len(probe.input.data)

\* a 16-byte plaintext with 0x80 bytes inside and at its end came back from
\* the round trip
C30_Witness ==
    /\ Applied("decryptCbc") /\ probe.input \in CbcInputs
    /\ Len(probe.input.data) = blockSize
    /\ probe.input.data[5] = 128 /\ probe.input.data[blockSize] = 128
    /\ probe.input.iv = RndA1
    /\ Outcome.ok /\ Outcome.val = probe.input.data


\* ---- the block primitives without padding -------------------------------------------
\* one of the primitives was applied to data that is no whole number of blocks
UnevenApplied(fn) ==
    Applied(fn) /\ probe.input \in CbcInputs /\ (Len(probe.input.data) % blockSize) # 0
BlockPrimitives == {"encryptCbc/nopad", "decryptCbc/keep", "decryptCbc/strip", "encryptEcb"}

\* C31: encryptCbc without padding, decryptCbc with and without padding
\* removal, and encryptEcb throw and return nothing for every input whose
\* length is not a multiple of 16; whole blocks are accepted by encryptCbc
\* without padding, decryptCbc without padding removal and encryptEcb.
C31_UnevenInputRejected ==
    \A fn \in BlockPrimitives :
        /\ UnevenApplied(fn) => (~Outcome.ok /\ Outcome.err = "blocksize" /\ Outcome.val = <<>>)
        /\ (Applied(fn) /\ fn # "decryptCbc/strip"
            /\ (Len(probe.input.data) % blockSize) = 0)
              => (Outcome.ok /\ Len(Outcome.val) = Len(probe.input.data))

\* encryptEcb threw on 15 bytes
C31_Witness ==
    /\ UnevenApplied("encryptEcb") /\ Len(probe.input.data) = 15
    /\ ~Outcome.ok /\ Outcome.err = "blocksize"


\* ---- offline SDM validation ---------------------------------------------------------
\* what the decrypted PICC data `picc` decodes to
DecodedPicc(picc) ==
    [uid |-> IF HasBit(picc.tag, 7) THEN Some(picc.uid) ELSE Null,
     counter |-> IF HasBit(picc.tag, 6) THEN Some(picc.counter) ELSE Null]
ValidatedPicc == Applied("validateAndDecryptPicc") /\ probe.input \in ValidationInputs

\* C32 (as claimed): { uid, counter } is returned if and only if the
\* signature is the reduced MAC over the session vector of the decoded UID and
\* counter, and for any altered encrypted PICC data the result is null.
C32_AnyAlterationRejected ==
    ValidatedPicc
        => /\ Outcome.ok
           /\ (~IsNull(Outcome.val))
                <=> (probe.input.signatureMac
                        = SignatureOf(probe.input.macKey, probe.input.received))
           /\ (probe.input.signatureMac = SignatureOf(probe.input.macKey, probe.input.genuine)
               /\ probe.input.encryptedPicc
                    # CbcEncBlocks(probe.input.decryptionKey, probe.input.genuine.bytes,
                                   createEmptyIv, 1))
                => IsNull(Outcome.val)

\* C32 (amended): { uid, counter }, decoded from the decrypted PICC data, is
\* returned if and only if the signature is the reduced MAC over the session
\* vector of the decoded UID and counter; with the signature of other PICC
\* data the result is null when the session vectors of the two differ, and
\* encrypted data that is no whole number of blocks throws.
C32_SignatureDecidesResult ==
    /\ ValidatedPicc
        => /\ Outcome.ok
           /\ (~IsNull(Outcome.val))
                <=> (probe.input.signatureMac
                        = SignatureOf(probe.input.macKey, probe.input.received))
           /\ ~IsNull(Outcome.val) => Val(Outcome.val) = DecodedPicc(probe.input.received)
           /\ (probe.input.signatureMac = SignatureOf(probe.input.macKey, probe.input.genuine)
               /\ SessionVectorOf(probe.input.received) # SessionVectorOf(probe.input.genuine))
                => IsNull(Outcome.val)
    /\ Applied("validateAndDecryptPicc/truncated") => ~Outcome.ok

\* encrypted PICC data with UID and counter 56 was accepted with its own
\* signature
C32_Witness ==
    /\ ValidatedPicc /\ Outcome.ok /\ ~IsNull(Outcome.val)
    /\ probe.input.received = probe.input.genuine
    /\ probe.input.received.tag = 199
    /\ Val(Outcome.val) = [uid |-> Some(Uid7), counter |-> Some(56)]


\* ---- session key derivation ---------------------------------------------------------
\* the session vector of the derivation: two label bytes, 00 01 00 80,
\* RndA[0..2], RndA[2..8] XOR RndB[0..6], RndB[6..16], RndA[8..16]
DerivationVector(first, second, RndA, RndB) ==
    <<first, second, 0, 1, 0, 128, RndA[1], RndA[2]>>
    \o [i \in 1..6 |-> XorByte(RndA[i + 2], RndB[i])]
    \o SubSeq(RndB, 7, 16) \o SubSeq(RndA, 9, 16)

\* C33: the session keys are CMAC(key, SV1) and CMAC(key, SV2) with SV1 = A5
\* 5A 00 01 00 80 || RndA[0..2] || (RndA[2..8] XOR RndB[0..6]) || RndB[6..16]
\* || RndA[8..16] and SV2 the same with 5A A5 in front, and for the known
\* answer inputs they are 7a93d657... and fc4af159....
C33_SessionKeyDerivation ==
    LET in == probe.input
    IN  /\ (Applied("calcSessionKeys") /\ in \in KeyInputs)
              => /\ Outcome.sessionEncryptionKey
                      = MAC(in.key, DerivationVector(165, 90, in.RndA, in.RndB))
                 /\ Outcome.sessionMacKey
                      = MAC(in.key, DerivationVector(90, 165, in.RndA, in.RndB))
        /\ (Applied("calcSessionKeys/aes") /\ in \in KeyInputs)
              => /\ Outcome.sessionEncryptionKey
                      = AesCmac(in.key, DerivationVector(165, 90, in.RndA, in.RndB))
                 /\ Outcome.sessionMacKey
                      = AesCmac(in.key, DerivationVector(90, 165, in.RndA, in.RndB))
                 /\ (in.key = alloc(16) /\ in.RndA = KnownRndA /\ in.RndB = KnownRndB)
                      => (Outcome.sessionEncryptionKey = KnownEncKey
                          /\ Outcome.sessionMacKey = KnownMacKey)

\* the known answer was computed
C33_Witness ==
    /\ Applied("calcSessionKeys/aes")
    /\ probe.input = [key |-> alloc(16), RndA |-> KnownRndA, RndB |-> KnownRndB]
    /\ Outcome = [sessionEncryptionKey |-> KnownEncKey, sessionMacKey |-> KnownMacKey]


\* ---- the counter in the MAC and IV inputs -------------------------------------------
\* a Mac- or Full-mode send issued with a session installed that transmitted
SessionSend(call) ==
    /\ IsSend(call) /\ call.commMode \in {"mac", "full"}
    /\ ~IsNull(call.auth0) /\ call.nframes > 0
\* the data such a send puts on the wire: encrypted in Full mode when there is any
WireData(call) ==
    IF IsNull(call.data) THEN <<>>
    ELSE IF call.commMode = "full" /\ Len(Val(call.data)) > 0 THEN CipherOf(call)
    ELSE Val(call.data)
\* the transmit of the send returned an OK status with a payload
AnsweredWithPayload(call) ==
    /\ SessionSend(call) /\ IsDone(call) /\ NativeReturned(call)
    /\ StatusIsOk(RespStatus(call)) /\ RespHasPayload(call)

\* C34 (as claimed): for a Mac or Full send with a session installed and
\* counter c at the call, the request MAC input and the request IV input hold
\* c, the counter is c + 1 once the transmit returned, and the response MAC
\* check and the response IV input hold c + 1.
C34_CounterInMacAndIv ==
    \A c \in Callers :
        LET call == calls[c]
            plain == PlainOf(call, PayloadBody(call))
        IN  /\ SessionSend(call) => call.frame = MacFrame(call, WireData(call))
            /\ (SessionSend(call) /\ IsDone(call) /\ NativeReturned(call))
                  => commandCounter = call.ctr0 + 1
            /\ AnsweredWithPayload(call)
                  => /\ call.error # "range"
                     /\ call.error = "mac" <=> ~MacIsValid(call)
                     /\ (call.commMode = "mac" /\ call.error = "")
                          => Val(Val(call.sendResult).data) = PayloadBody(call)
                     /\ (call.commMode = "full" /\ call.error = ""
                         /\ Len(PayloadBody(call)) > 0 /\ ~IsNull(call.sendResult))
                          => Val(call.sendResult).data
                                = Some(subarray(plain, 0, lastIndexOf(plain, 128)))


\* ---- C35 ------------------------------------------------------------------

IsStandardFileOp(call) == call.op \in {"readStandardFile", "writeStandardFile"}
\* 00 A4 00 0C 02 E1 04 80: ISOSelectFile of the NDEF file
SelectNdefFrame == <<0, 164, 0, 12, 2, 225, 4, 128>>
\* 00 B0 00 00 7E, or 00 D6 00 00 [Lc contents]
BinaryFrame(call) ==
    IF call.op = "readStandardFile" THEN <<0, 176, 0, 0, 126>>
    ELSE <<0, 214, 0, 0>> \o (IF Len(Val(call.data)) = 0 THEN <<>>
                              ELSE <<Len(Val(call.data))>> \o Val(call.data))
SelectFailed(call) ==
    /\ IsStandardFileOp(call) /\ IsDone(call) /\ call.nframes = 1
    /\ ~(NativeReturned(call) /\ StatusIsOk(RespStatus(call)))

\* C35: readStandardFile and writeStandardFile transmit ISOSelectFile of the
\* NDEF file (E1 04) as their first frame; the ReadBinary (INS 0xB0) or
\* UpdateBinary (INS 0xD6) frame is their second frame and is transmitted
\* only from the state in which the select is outstanding, with a response
\* whose status the library takes as OK; a select that threw, came back
\* malformed or came back with another status ends the operation with an
\* error after one frame.
C35_SelectBeforeBinary ==
    [][\A c \in Callers :
          LET old == calls[c]
              new == calls'[c]
          IN  IsStandardFileOp(new) =>
                /\ new.nframes <= 2
                /\ (new.nframes = 1 /\ old.nframes # 1) => (new.pc = "select" /\ new.frame = SelectNdefFrame)
                /\ (new.nframes = 1 /\ ~IsDone(new)) => (new.pc = "select" /\ new.frame = SelectNdefFrame)
                /\ (new.nframes = 2 /\ old.nframes # 2) =>
                      /\ old.op = new.op /\ old.pc = "select" /\ old.frame = SelectNdefFrame
                      /\ new.pc = "iso" /\ new.frame = BinaryFrame(new)
                      /\ NativeReturned(new) /\ StatusIsOk(RespStatus(new))
                /\ (old.pc = "select" /\ old.op = new.op /\ new.nframes = 1 /\ new # old) =>
                      (SelectFailed(new) /\ new.error # "")
                /\ (IsDone(new) /\ new.nframes = 1) => new.error # ""]_vars

C35_Witness ==
    \E c \in Callers :
        /\ SelectFailed(calls[c]) /\ NativeReturned(calls[c])
        /\ RespStatus(calls[c]) = <<106, 130>>


\* ---- C36 ------------------------------------------------------------------

IsIsoOp(call) == call.op \in {"getUid", "selectFile", "readStandardFile", "writeStandardFile"}
\* the frame outstanding at each suspension point, without any MAC:
\* FF CA 00 00 00, 00 A4 00 0C Lc fileId 80, 00 B0 / 00 D6 ..,
\* 90 71 00 00 02 keyNumber 00 00, 90 AF 00 00 20 [32 bytes] 00
BareFrame(call) ==
    CASE call.pc = "uid" -> call.frame = <<255, 202, 0, 0, 0>>
      [] call.pc = "select" -> call.frame = SelectNdefFrame
      [] call.pc = "iso" /\ call.op = "selectFile" ->
             call.frame = <<0, 164, 0, 12, Len(Val(call.data))>> \o Val(call.data) \o <<128>>
      [] call.pc = "iso" /\ call.op # "selectFile" -> call.frame = BinaryFrame(call)
      [] call.pc = "auth1" ->
             /\ Len(call.frame) = 8
             /\ SubSeq(call.frame, 1, 5) = <<144, 113, 0, 0, 2>>
             /\ SubSeq(call.frame, 7, 8) = <<0, 0>>
      [] call.pc = "auth2" ->
             /\ Len(call.frame) = 5 + 2 * blockSize + 1
             /\ SubSeq(call.frame, 1, 5) = <<144, 175, 0, 0, 2 * blockSize>>
             /\ call.frame[Len(call.frame)] = 0
      [] OTHER -> TRUE
AuthInstalled(call) == IsAuth(call) /\ IsDone(call) /\ call.error = ""

\* C36: every step of getUid, selectFile, readStandardFile, writeStandardFile
\* and authenticate leaves the command counter and the session as they were,
\* except the step in which authenticate succeeds (counter 0, new session);
\* the frames they transmit are the bare command frames, without the 8 MAC
\* bytes of a session frame; a failed authenticate ends with the counter it
\* started with.
C36_RawPathsLeaveCounter ==
    [][\A c \in Callers :
          LET new == calls'[c]
          IN  /\ ((IsIsoOp(new) \/ IsAuth(new)) /\ new # calls[c] /\ ~AuthInstalled(new))
                    => (commandCounter' = commandCounter /\ authentication' = authentication)
              /\ (IsIsoOp(new) \/ IsAuth(new)) => BareFrame(new)
              /\ (IsIsoOp(new) /\ IsDone(new)) => commandCounter' = new.ctr0
              /\ (IsAuth(new) /\ IsDone(new) /\ new.error # "") => commandCounter' = new.ctr0]_vars

\* readStandardFile ran to its end (select and ReadBinary answered) on a
\* session with a non-zero counter, which it left alone
C36_Witness ==
    \E c \in Callers :
        /\ calls[c].op = "readStandardFile" /\ IsDone(calls[c]) /\ calls[c].error = ""
        /\ calls[c].nframes = 2 /\ ~IsNull(calls[c].auth0)
        /\ calls[c].ctr0 > 0 /\ commandCounter = calls[c].ctr0


\* ---- C37 ------------------------------------------------------------------
\* rotateLeft, rotateRight and deriveSessionKeys applied on their own
\* (src/src/buffer.ts, src/src/crypto/session.ts)

\* byte sequences of 0 to 3 bytes
RotateBytes == {0, 7, 255}
MaxRotateLen == 3
RotateInputs == UNION {[1..n -> RotateBytes] : n \in 0..MaxRotateLen}

\* what a card may answer to the second authentication frame, as ecRndAp:
\* TI || RndA' || PDcap2 || PCDcap2 encrypted under some key, with RndA' the
\* host's RndA rotated left, not rotated, rotated right, or another RndA
\* rotated left; one block only; 15 bytes; nothing
CardAnswers(key, rndA) ==
    {encryptCbc(k, TI1 \o rndAp \o alloc(12), createEmptyIv, FALSE).val :
        k \in {key, KeyB}, rndAp \in {rotateLeft(rndA), rndA, rotateRight(rndA), rotateLeft(RndA2)}}
    \cup {encryptCbc(key, TI1 \o subarray(rotateLeft(rndA), 0, 12), createEmptyIv, FALSE).val,
          allocFill(15, 9), <<>>}
DeriveInputs ==
    UNION {{[key |-> KeyA, rndA |-> rndA, rndB |-> RndB1, ecRndAp |-> answer] :
               answer \in CardAnswers(KeyA, rndA)} : rndA \in {RndA1, allocFill(blockSize, 5)}}

InitRotate ==
    /\ IdleSession
    /\ \E b \in RotateInputs, d \in DeriveInputs :
          probe = [fn |-> "", input |-> [b |-> b, derive |-> d], output |-> Null]

RotateLeft == Probe("rotateLeft", rotateLeft(probe.input.b))
RotateRight == Probe("rotateRight", rotateRight(probe.input.b))
RotateRightOfLeft == Probe("rotateRight/rotateLeft", rotateRight(rotateLeft(probe.input.b)))
RotateLeftOfRight == Probe("rotateLeft/rotateRight", rotateLeft(rotateRight(probe.input.b)))
DeriveSessionKeys ==
    Probe("deriveSessionKeys",
          deriveSessionKeys(probe.input.derive.key, probe.input.derive.ecRndAp,
                            probe.input.derive.rndA, probe.input.derive.rndB))

NextRotate ==
    RotateLeft \/ RotateRight \/ RotateRightOfLeft \/ RotateLeftOfRight \/ DeriveSessionKeys

SpecRotate == InitRotate /\ [][NextRotate]_vars

\* the card answer can be decrypted (step 1 of the derivation)
Decryptable == (Len(probe.input.derive.ecRndAp) % blockSize) = 0
\* bytes 4..20 of the decrypted answer
DecryptedRndAp ==
    LET plain == CbcDecBlocks(probe.input.derive.key, probe.input.derive.ecRndAp, alloc(blockSize), 1)
    IN  IF Len(plain) <= 4 THEN <<>>
        ELSE SubSeq(plain, 5, IF Len(plain) < 20 THEN Len(plain) ELSE 20)
\* the host's RndA with its first byte moved to the end
RndARotatedLeft ==
    SubSeq(probe.input.derive.rndA, 2, blockSize) \o <<probe.input.derive.rndA[1]>>

\* C37: rotateRight(rotateLeft(b)) = b and rotateLeft(rotateRight(b)) = b
\* for every byte sequence b (the empty one and one byte included), and
\* rotateLeft moves the first byte to the end; deriveSessionKeys applied to
\* a card answer that decrypts returns a session exactly when bytes 4..20 of
\* the plaintext are the host's RndA rotated left by one byte, and fails with
\* the mismatch error otherwise (an answer that is not a whole number of
\* blocks is rejected by the decryption before any comparison).
C37_RotateRightInvertsLeft ==
    /\ Applied("rotateRight/rotateLeft") => Outcome = probe.input.b
    /\ Applied("rotateLeft/rotateRight") => Outcome = probe.input.b
    /\ (Applied("rotateLeft") /\ Len(probe.input.b) > 0)
          => Outcome = Tail(probe.input.b) \o <<Head(probe.input.b)>>
    /\ (Applied("rotateRight") /\ Len(probe.input.b) > 0)
          => Outcome = <<probe.input.b[Len(probe.input.b)]>>
                       \o SubSeq(probe.input.b, 1, Len(probe.input.b) - 1)
    /\ (Applied("deriveSessionKeys") /\ Decryptable)
          => /\ Outcome.ok <=> (DecryptedRndAp = RndARotatedLeft)
             /\ ~Outcome.ok => Outcome.err = "rndA"
    /\ (Applied("deriveSessionKeys") /\ ~Decryptable)
          => (~Outcome.ok /\ Outcome.err = "blocksize")

\* an answer carrying a 16-byte RndA with distinct bytes, rotated left, was
\* accepted
C37_Witness ==
    /\ Applied("deriveSessionKeys") /\ Outcome.ok
    /\ probe.input.derive.rndA = RndA1
    /\ DecryptedRndAp = RndARotatedLeft /\ DecryptedRndAp # probe.input.derive.rndA


\* ---- C38 ------------------------------------------------------------------

\* JAMCRC-32 (the bitwise NOT of CRC-32; 0x340BC6D9 for "123456789") of the
\* two 16-byte keys, least significant byte first: F6B37F0E and 9E4671E4
KnownJamCrc(key) ==
    CASE key = KeyA -> <<14, 127, 179, 246>>
      [] key = KeyB -> <<228, 113, 70, 158>>
KeysAccepted == Len(probe.input.oldKey) = 16 /\ Len(probe.input.newKey) = 16
\* the key data of the ChangeKey command for the caller's arguments
ExpectedKeyData ==
    IF probe.input.keyNumber = 0
    THEN probe.input.newKey \o <<probe.input.newKeyVersion>>
    ELSE [i \in 1..16 |-> XorByte(probe.input.oldKey[i], probe.input.newKey[i])]
         \o <<probe.input.newKeyVersion>> \o KnownJamCrc(probe.input.newKey)
IsChangeKey(call) == call.op = "changeKey"

\* C38: changeKey rejects, before any frame, an old or new key that is not
\* exactly 16 bytes; otherwise, with a session installed, it sends command
\* 0xC4 in Full mode with header [keyNumber] and as plaintext the 17 bytes
\* newKey || version for key 0, the 21 bytes (oldKey XOR newKey) || version
\* || JAMCRC32(newKey) little-endian for the other key numbers: the frame is
\* the session frame over the header and the CBC encryption of that payload.
C38_ChangeKeyPayload ==
    \A c \in Callers :
        LET call == calls[c]
        IN  IsChangeKey(call) =>
              /\ ~KeysAccepted
                    => (IsDone(call) /\ call.error = "argument" /\ call.nframes = 0)
              /\ KeysAccepted => call.error # "argument"
              /\ (KeysAccepted /\ ~IsNull(call.auth0) /\ FitsUInt16(call.ctr0))
                    => /\ call.nframes = 1
                       /\ call.commMode = "full" /\ call.command = 196
                       /\ call.header = <<probe.input.keyNumber>>
                       /\ call.data = Some(ExpectedKeyData)
                       /\ Len(ExpectedKeyData) = (IF probe.input.keyNumber = 0 THEN 17 ELSE 21)
                       /\ call.frame = MacFrame(call, CipherOf(call))
                       /\ SubSeq(call.frame, 1, 6) = <<144, 196, 0, 0, 1 + 32 + 8, probe.input.keyNumber>>
              /\ call.nframes > 0 => (KeysAccepted /\ ~IsNull(call.auth0))

\* changeKey of key 1 from KeyA to KeyB is outstanding with its 21-byte payload
C38_Witness ==
    \E c \in Callers :
        /\ IsChangeKey(calls[c]) /\ calls[c].pc = "full"
        /\ probe.input.keyNumber = 1 /\ probe.input.oldKey = KeyA /\ probe.input.newKey = KeyB
        /\ Len(Val(calls[c].data)) = 21
        /\ SubSeq(Val(calls[c].data), 18, 21) = <<228, 113, 70, 158>>


\* ---- C39 ------------------------------------------------------------------

\* the step installs the session of a successful authenticate
InstallStep(c) == AuthInstalled(calls'[c]) /\ calls[c].pc = "auth2"
\* the caller's previous call was a Mac- or Full-mode send under the session
\* and the step issues the next one, which reaches the transmit
NextSessionSend(c) ==
    /\ IsDone(calls[c]) /\ SessionSend(calls[c])
    /\ calls'[c] # calls[c] /\ SessionSend(calls'[c])
\* within a session the counter never goes back, and a send that reaches the
\* transmit builds its request MAC and its request IV from the counter value
\* of the moment it is issued
CounterAdvances ==
    /\ (~\E c \in Callers : InstallStep(c))
          => (commandCounter' >= commandCounter /\ authentication' = authentication)
    /\ \A c \in Callers :
          (Settled(c) /\ calls'[c] # calls[c] /\ SessionSend(calls'[c]))
              => /\ calls'[c].ctr0 = commandCounter
                 /\ calls'[c].frame = MacFrame(calls'[c], WireData(calls'[c]))

\* C39 (as claimed): with commands issued one at a time, a Mac- or Full-mode
\* command sent under the session uses a counter value strictly greater than
\* that of the session's previous such command whenever reader.transmit
\* returned for the previous one; the counter never goes back within a
\* session, so no value is used by two commands whose transmit returned.
C39_NoCounterReuse ==
    [][/\ CounterAdvances
       /\ \A c \in Callers :
             (NextSessionSend(c) /\ ~IsNull(calls[c].resp)) => calls'[c].ctr0 > calls[c].ctr0]_vars

\* C39 (amended): the same, for a previous command whose native send
\* returned, that is whose reader.transmit returned a response of at least
\* the two status bytes; after a shorter response the counter stays and the
\* next command uses the same value.
C39_NoCounterReuseAfterResponse ==
    [][/\ CounterAdvances
       /\ \A c \in Callers :
             /\ (NextSessionSend(c) /\ NativeReturned(calls[c])) => calls'[c].ctr0 > calls[c].ctr0
             /\ (NextSessionSend(c) /\ ~NativeReturned(calls[c])) => calls'[c].ctr0 = calls[c].ctr0]_vars

\* a Full-mode send with data is outstanding at counter 2 under the session
\* restored at counter 0, two answered sends later
C39_Witness ==
    \E c \in Callers :
        /\ SessionSend(calls[c]) /\ calls[c].commMode = "full" /\ calls[c].pc = "full"
        /\ ~IsNull(calls[c].data) /\ Len(Val(calls[c].data)) > 0
        /\ IsNull(options.initialCommandCounter) /\ ~authCompleted
        /\ calls[c].ctr0 = 2 /\ commandCounter = 2


\* ---- C40 ------------------------------------------------------------------
\* validatePlainPiccMac applied on its own (src/src/crypto/aes/validation.ts)

\* SV2 with only zero bytes after the uid, and the signature over it
ZeroCounterVector(uid) ==
    LET head == <<60, 195, 0, 1, 0, 128>> \o (IF IsNull(uid) THEN <<>> ELSE Val(uid))
    IN  head \o [i \in 1..(16 - Len(head)) |-> 0]
ZeroCounterSignature(key, uid) ==
    LET mac == MAC(MAC(key, ZeroCounterVector(uid)), <<>>)
    IN  <<mac[2], mac[4], mac[6], mac[8], mac[10], mac[12], mac[14], mac[16]>>
\* uids: none, 7 bytes (two of them), empty, 8 bytes (too long for one block)
PlainUids == {Null, Some(Uid7), Some(OtherUid), Some(<<>>), Some(allocFill(8, 4))}
PlainCounters == {1, 56, 16777215}
PlainSignatures(key, uid, counter) ==
    IF ~IsNull(uid) /\ Len(Val(uid)) > 7 THEN {alloc(8)}
    ELSE {ZeroCounterSignature(key, uid),
          reduceMac(MAC(MAC(key, createSessionVector(<<60, 195, 0, 1, 0, 128>>, uid, Some(counter)).val), <<>>)),
          subarray(ZeroCounterSignature(key, uid), 0, 7),
          alloc(8)}
PlainMacInputs ==
    UNION {UNION {UNION {{[fileReadKey |-> key, uid |-> uid, counter |-> counter, signatureMac |-> sig] :
                             sig \in PlainSignatures(key, uid, counter)} :
                         counter \in PlainCounters} :
                  uid \in PlainUids} :
           key \in {KeyA, KeyB}}

InitPlainMac ==
    /\ IdleSession
    /\ \E input \in PlainMacInputs : probe = [fn |-> "", input |-> input, output |-> Null]

ValidateWithoutCounter ==
    Probe("validatePlainPiccMac/null",
          validatePlainPiccMac(probe.input.fileReadKey, probe.input.uid, Null, probe.input.signatureMac))
ValidateWithCounterZero ==
    Probe("validatePlainPiccMac/0",
          validatePlainPiccMac(probe.input.fileReadKey, probe.input.uid, Some(0), probe.input.signatureMac))
ValidateWithCounter ==
    Probe("validatePlainPiccMac",
          validatePlainPiccMac(probe.input.fileReadKey, probe.input.uid, Some(probe.input.counter),
                               probe.input.signatureMac))

NextPlainMac == ValidateWithoutCounter \/ ValidateWithCounterZero \/ ValidateWithCounter

SpecPlainMac == InitPlainMac /\ [][NextPlainMac]_vars

\* the signature given is the one over the vector with a zero counter field
SignsZeroCounter ==
    probe.input.signatureMac = ZeroCounterSignature(probe.input.fileReadKey, probe.input.uid)
UidFitsVector == IsNull(probe.input.uid) \/ Len(Val(probe.input.uid)) <= 7

\* C40: validatePlainPiccMac gives the same result (the same boolean, or the
\* same error for a uid that does not fit the block) for an absent counter
\* and for counter 0, whatever the key, uid and signature: in both cases it
\* is true exactly for the signature over prefix || uid || zero bytes.
C40_AbsentCounterIsZero ==
    /\ Applied("validatePlainPiccMac/null")
          => /\ Outcome = validatePlainPiccMac(probe.input.fileReadKey, probe.input.uid, Some(0),
                                               probe.input.signatureMac)
             /\ UidFitsVector => (Outcome.ok /\ (Outcome.val <=> SignsZeroCounter))
             /\ ~UidFitsVector => ~Outcome.ok
    /\ Applied("validatePlainPiccMac/0")
          => /\ Outcome = validatePlainPiccMac(probe.input.fileReadKey, probe.input.uid, Null,
                                               probe.input.signatureMac)
             /\ UidFitsVector => (Outcome.ok /\ (Outcome.val <=> SignsZeroCounter))
             /\ ~UidFitsVector => ~Outcome.ok

\* the signature over uid || 00 00 00 was accepted without a counter
C40_Witness ==
    /\ Applied("validatePlainPiccMac/null")
    /\ probe.input.uid = Some(Uid7) /\ SignsZeroCounter
    /\ Outcome.ok /\ Outcome.val

====
